---- MODULE Spec2Model ----
(***************************************************************************)
(* Verification model of the adapter core of repochief-adapters:           *)
(*   - the capability model (AIAgentAdapter.supportsFeature),              *)
(*   - the AdapterRegistry (scoring and selection),                        *)
(*   - the TaskRouter (requirement inference, routing cache),              *)
(*   - the OrchestrationStrategy engine (fallback chain, timeout race).    *)
(*                                                                         *)
(* Wall-clock durations are not modelled: an attempt that was executed     *)
(* carries duration "measured", a skipped one carries "0" as in the code.  *)
(* A pending adapter call that never settles is a call whose settle step   *)
(* is never taken.                                                         *)
(***************************************************************************)
EXTENDS Integers, Sequences, FiniteSets, TLC

VARIABLES
    \* ---- OrchestrationStrategy (one strategy object, one execute call) ----
    adapter,      \* this.adapter
    task,         \* argument of execute
    options,      \* argument of execute
    pc,           \* position of the execute call
    idx,          \* position of the for-loop over the candidate strategies
    attempts,     \* the local attempts array
    cur,          \* the strategy implementation execute is awaiting
    background,   \* implementations that lost the timeout race and were left running
    executed,     \* strategies whose implementation was started, in order
    strategyStats,\* this.strategyStats
    events,       \* notifications emitted so far
    outcome,      \* what execute resolved with / rejected with
    \* ---- AdapterRegistry and TaskRouter ----
    registry,        \* registry._adapters
    defaultVersions, \* registry._defaultVersions
    metrics,         \* registry._metrics
    preferences,     \* router.preferences
    routingCache,    \* router._routingCache
    now,             \* the clock (Date.now()), in minutes
    routes,          \* number of route calls made
    batch,           \* the routeBatch call in flight, with its local variables
    returned,        \* what the last registry / router call returned or threw
    emitted          \* the notifications the last registry / router call emitted

execVars == <<adapter, task, options, pc, idx, attempts, cur, background,
              executed, strategyStats, events, outcome>>

registryVars == <<registry, defaultVersions, metrics>>

routerVars == <<preferences, routingCache, now, routes, batch>>

callVars == <<returned, emitted>>

nonExecVars == <<registryVars, routerVars, callVars>>

vars == <<execVars, registryVars, routerVars, callVars>>

(***************************************************************************)
(* Small helpers                                                           *)
(***************************************************************************)
Min(a, b) == IF a < b THEN a ELSE b

CeilDiv(a, b) == (a + b - 1) \div b

None == [kind |-> "none"]

(***************************************************************************)
(* Capability model                                                        *)
(***************************************************************************)
\* A feature-flag entry: absent, a boolean, or {enabled, config}.
\* maxConcurrent = 0 stands for "no config / no maxConcurrent in it".
Absent == [kind |-> "absent", value |-> FALSE, maxConcurrent |-> 0]

Flag(b) == [kind |-> "bool", value |-> b, maxConcurrent |-> 0]

Detailed(b, n) == [kind |-> "object", value |-> b, maxConcurrent |-> n]

\* Keys of the capability object itself.
TopLevelKeys(caps) ==
    {"maxContextTokens", "supportedLanguages", "multiFile", "streaming", "features"}
        \cup (IF caps.subAgents.kind = "absent" THEN {} ELSE {"subAgents"})

\* Names every object inherits from Object.prototype, which the `in`
\* operator finds as well; their values are functions.
ObjectPrototypeKeys ==
    {"constructor", "toString", "toLocaleString", "valueOf", "hasOwnProperty",
     "isPrototypeOf", "propertyIsEnumerable"}

\* Boolean(caps[key]) for a top-level key.
TopLevelTruthy(caps, key) ==
    CASE key = "maxContextTokens"   -> caps.maxContextTokens # 0
      [] key = "supportedLanguages" -> TRUE
      [] key = "multiFile"          -> caps.multiFile
      [] key = "streaming"          -> caps.streaming
      [] key = "features"           -> TRUE
      [] key = "subAgents"          -> caps.subAgents.kind = "object" \/ caps.subAgents.value
      [] OTHER                      -> FALSE

\* Boolean(parent[child]) for a dotted name whose parent is an object.
ChildTruthy(caps, parent, child) ==
    IF parent = "subAgents" /\ caps.subAgents.kind = "object"
    THEN CASE child = "supported"     -> caps.subAgents.value
           [] child = "maxConcurrent" -> caps.subAgents.maxConcurrent # 0
           [] child \in ObjectPrototypeKeys -> TRUE
           [] OTHER                   -> FALSE
    ELSE FALSE

\* feature.split('.', 2) for the dotted names in use; any other name has no dot.
Segments(feature) ==
    CASE feature = "subAgents.supported"     -> <<"subAgents", "supported">>
      [] feature = "subAgents.maxConcurrent" -> <<"subAgents", "maxConcurrent">>
      [] feature = "subAgents.delegate"      -> <<"subAgents", "delegate">>
      [] feature = "subAgents.valueOf"       -> <<"subAgents", "valueOf">>
      [] OTHER                               -> <<feature>>

\* caps = None: the adapter has no profile (this._capabilities is null).
supportsFeature(caps, feature) ==
    IF caps = None
    THEN FALSE
    ELSE IF feature \in TopLevelKeys(caps)
    THEN TopLevelTruthy(caps, feature)
    ELSE IF feature \in ObjectPrototypeKeys
    THEN TRUE
    ELSE IF feature \in DOMAIN caps.features /\ caps.features[feature].kind # "absent"
    THEN caps.features[feature].value
    ELSE IF Len(Segments(feature)) >= 2 /\ Segments(feature)[1] \in TopLevelKeys(caps)
    THEN ChildTruthy(caps, Segments(feature)[1], Segments(feature)[2])
    ELSE FALSE

\* The maxConcurrent of getFeatureConfig(feature), 0 when there is none.
getFeatureConfig(caps, feature) ==
    IF feature \in DOMAIN caps.features /\ caps.features[feature].kind = "object"
    THEN caps.features[feature].maxConcurrent
    ELSE 0

(***************************************************************************)
(* OrchestrationStrategy: configuration                                    *)
(***************************************************************************)
defaultStrategies == <<"subAgents", "parallel", "streaming", "batched", "sequential">>

timeouts ==
    [s \in {"subAgents", "parallel", "streaming", "batched", "sequential"} |->
        CASE s = "subAgents"  -> 300000
          [] s = "parallel"   -> 180000
          [] s = "streaming"  -> 120000
          [] s = "batched"    -> 90000
          [] s = "sequential" -> 60000]

DefaultParallelConcurrency == 5

DefaultBatchSize == 5

LongDescription == 500

ManyFilesForSubAgents == 5

ManyFilesForParallel == 2

ManyFilesForBatched == 10

NoStrategy == "none"

(***************************************************************************)
(* A strategy implementation in flight (the promise of _executeStrategy).  *)
(*   impl     which body runs: "single" adapter call, the "parallel"       *)
(*            fan-out, the "batched" loop                                  *)
(*   entry    the adapter entry point the calls go to                      *)
(*   planned  number of adapter calls the body will make in total          *)
(*   width    calls started together (parallel: maxConcurrent)             *)
(*   started / inflight / ok / bad   adapter calls so far                  *)
(*   files    context.files of the task, chunk: files per adapter call     *)
(*   calls    context.files of the task each adapter call so far was given *)
(*   rejections   adapter calls so far whose promise was rejected          *)
(*   timeout  delay the timeout race was armed with (0: no race)           *)
(***************************************************************************)
AdapterResult == [status |-> "completed", successful |-> 0, failed |-> 0, batchCount |-> 0]

\* context.files of a task with n files: the files are told apart by their
\* position in the list.
Files(n) == [i \in 1 .. n |-> i]

\* Array.prototype.slice(begin, end), for 0 <= begin <= end
Slice(array, begin, end) == SubSeq(array, begin + 1, Min(end, Len(array)))

\* The files of the k-th adapter call when each call is given `chunk` files
Chunk(files, chunk, k) == Slice(files, (k - 1) * chunk, k * chunk)

Run(strategy, impl, entry, planned, width, files, chunk) ==
    [kind |-> "run", strategy |-> strategy, impl |-> impl, entry |-> entry,
     status |-> "running", error |-> "", result |-> AdapterResult,
     planned |-> planned, width |-> width,
     started |-> Min(planned, width), inflight |-> Min(planned, width),
     ok |-> 0, bad |-> 0, rejections |-> 0, timeout |-> 0, files |-> files, chunk |-> chunk,
     calls |-> [k \in 1 .. Min(planned, width) |-> Chunk(files, chunk, k)]]

Rejected(strategy, msg) ==
    [Run(strategy, "none", "none", 0, 0, <<>>, 0) EXCEPT !.status = "rejected", !.error = msg]

\* One adapter call, which is given the task as it is.
Single(strategy, entry, t) == Run(strategy, "single", entry, 1, 1, Files(t.files), t.files)

_executeSequentially(strategy, t, o) == Single(strategy, "executeTask", t)

\* Number of sub-tasks of _decomposeForParallel: one per file when there is
\* more than one file, else the task itself.
_decomposeForParallel(t) == IF t.files > 1 THEN t.files ELSE 1

\* Mutant: the adapter is not asked whether it supports sub-agents.
_executeWithSubAgentsUnasked(strategy, a, t, o) ==
    IF a.hasExecuteWithSubAgents
    THEN Single(strategy, "executeWithSubAgents", t)
    ELSE Rejected(strategy, "Sub-agent execution not implemented")

_executeWithSubAgents(strategy, a, t, o) ==
    IF ~supportsFeature(a.caps, "subAgents")
    THEN Rejected(strategy, "Sub-agents not supported")
    ELSE IF a.hasExecuteWithSubAgents
    THEN Single(strategy, "executeWithSubAgents", t)
    ELSE Rejected(strategy, "Sub-agent execution not implemented")

\* Mutant: every sub-task is started at once.
_executeAllAtOnce(strategy, a, t, o) ==
    IF ~supportsFeature(a.caps, "parallelExecution")
    THEN Rejected(strategy, "Parallel execution not supported")
    ELSE IF _decomposeForParallel(t) <= 1
    THEN _executeSequentially(strategy, t, o)
    ELSE Run(strategy, "parallel", "executeTask", _decomposeForParallel(t),
             _decomposeForParallel(t), Files(t.files), 1)

_executeInParallel(strategy, a, t, o) ==
    IF ~supportsFeature(a.caps, "parallelExecution")
    THEN Rejected(strategy, "Parallel execution not supported")
    ELSE IF _decomposeForParallel(t) <= 1
    THEN _executeSequentially(strategy, t, o)
    ELSE LET config == getFeatureConfig(a.caps, "parallelExecution")
             maxConcurrent == IF config # 0 THEN config ELSE DefaultParallelConcurrency
         IN  Run(strategy, "parallel", "executeTask", _decomposeForParallel(t), maxConcurrent,
                 Files(t.files), 1)

\* The simulated streaming of the fallback branch only slices the output for
\* the chunk callback; it makes no further adapter call.
_executeWithStreaming(strategy, a, t, o) ==
    IF ~supportsFeature(a.caps, "streaming")
    THEN Rejected(strategy, "Streaming not supported")
    ELSE IF a.hasExecuteWithStreaming
    THEN Single(strategy, "executeWithStreaming", t)
    ELSE Single(strategy, "executeTask", t)

\* options.batchSize || 5
BatchSizeOf(o) == IF o.batchSize # 0 THEN o.batchSize ELSE DefaultBatchSize

\* Mutant: the files after the last full batch are left out.
_executeInFullBatches(strategy, t, o) ==
    IF t.files = 0 \/ t.files <= BatchSizeOf(o)
    THEN _executeSequentially(strategy, t, o)
    ELSE Run(strategy, "batched", "executeTask", t.files \div BatchSizeOf(o), 1,
             Files(t.files), BatchSizeOf(o))

\* The batches are the slices [i, i + batchSize) for i = 0, batchSize, ...
_executeInBatches(strategy, t, o) ==
    IF t.files = 0 \/ t.files <= BatchSizeOf(o)
    THEN _executeSequentially(strategy, t, o)
    ELSE Run(strategy, "batched", "executeTask", CeilDiv(t.files, BatchSizeOf(o)), 1,
             Files(t.files), BatchSizeOf(o))

_executeStrategy(strategy, a, t, o) ==
    CASE strategy = "subAgents" -> _executeWithSubAgents(strategy, a, t, o)
      [] strategy = "parallel"  -> _executeInParallel(strategy, a, t, o)
      [] strategy = "streaming" -> _executeWithStreaming(strategy, a, t, o)
      [] strategy = "batched"   -> _executeInBatches(strategy, t, o)
      [] OTHER                  -> _executeSequentially(strategy, t, o)

\* Mutant: sequential has to be declared like any other strategy.
AvailableWhenDeclared(a, strategy) ==
    CASE strategy = "subAgents"  -> supportsFeature(a.caps, "subAgents")
      [] strategy = "parallel"   -> supportsFeature(a.caps, "parallelExecution")
      [] strategy = "streaming"  -> supportsFeature(a.caps, "streaming")
      [] strategy = "batched"    -> TRUE
      [] strategy = "sequential" -> supportsFeature(a.caps, "sequential")
      [] OTHER                   -> FALSE

\* Mutant: parallel is taken to be always available.
AvailableParallelAlways(a, strategy) ==
    CASE strategy = "subAgents"  -> supportsFeature(a.caps, "subAgents")
      [] strategy = "parallel"   -> TRUE
      [] strategy = "streaming"  -> supportsFeature(a.caps, "streaming")
      [] strategy = "batched"    -> TRUE
      [] strategy = "sequential" -> TRUE
      [] OTHER                   -> FALSE

_isStrategyAvailable(a, strategy) ==
    CASE strategy = "subAgents"  -> supportsFeature(a.caps, "subAgents")
      [] strategy = "parallel"   -> supportsFeature(a.caps, "parallelExecution")
      [] strategy = "streaming"  -> supportsFeature(a.caps, "streaming")
      [] strategy = "batched"    -> TRUE
      [] strategy = "sequential" -> TRUE
      [] OTHER                   -> FALSE

_isStrategySuitable(strategy, t) ==
    CASE strategy = "subAgents"  -> \/ t.complexity = "high"
                                    \/ t.description.len > LongDescription
                                    \/ t.files > ManyFilesForSubAgents
      [] strategy = "parallel"   -> \/ t.files > ManyFilesForParallel
                                    \/ t.type = "validation"
                                    \/ t.type = "testing"
      [] strategy = "streaming"  -> \/ t.type = "generation"
                                    \/ t.streaming
                                    \/ t.description.hasStream
      [] strategy = "batched"    -> t.files > ManyFilesForBatched
      [] strategy = "sequential" -> TRUE
      [] OTHER                   -> FALSE

\* task.extension is extensions[adapter.name].executionStrategy.
_getExplicitStrategy(t) ==
    IF t.extension # NoStrategy THEN t.extension
    ELSE IF t.executionStrategy # NoStrategy THEN t.executionStrategy
    ELSE NoStrategy

\* The race of _executeWithTimeout is armed with this delay.
_executeWithTimeout(run, timeout) == [run EXCEPT !.timeout = timeout]

\* Mutant: options.timeout is ignored.
TimeoutDefaultOnly(o, strategy) == timeouts[strategy]

TimeoutFor(o, strategy) == IF o.timeout # 0 THEN o.timeout ELSE timeouts[strategy]

(***************************************************************************)
(* One in-flight adapter call of a running implementation settles,         *)
(* successfully (good) or with an error.                                   *)
(***************************************************************************)
_aggregateParallelResults(r, ok, bad) ==
    IF ok = 0
    THEN [r EXCEPT !.status = "rejected", !.error = "All parallel tasks failed",
                   !.inflight = 0, !.ok = ok, !.bad = bad]
    ELSE [r EXCEPT !.status = "resolved", !.inflight = 0, !.ok = ok, !.bad = bad,
                   !.result = [status |-> IF bad > 0 THEN "partial" ELSE "completed",
                               successful |-> ok, failed |-> bad, batchCount |-> 0]]

_aggregateBatchResults(r, ok) ==
    [r EXCEPT !.status = "resolved", !.inflight = 0, !.ok = ok,
              !.result = [status |-> "completed", successful |-> 0, failed |-> 0,
                          batchCount |-> ok]]

Tallied(r, good) ==
    CASE r.impl = "single" ->
            IF good
            THEN [r EXCEPT !.status = "resolved", !.inflight = 0, !.ok = 1]
            ELSE [r EXCEPT !.status = "rejected", !.error = "Execution failed",
                           !.inflight = 0, !.bad = 1]
      [] r.impl = "parallel" ->
            LET ok  == IF good THEN r.ok + 1 ELSE r.ok
                bad == IF good THEN r.bad ELSE r.bad + 1
                nb  == Min(r.width, r.planned - r.started)
            IN  IF r.inflight > 1
                THEN [r EXCEPT !.inflight = @ - 1, !.ok = ok, !.bad = bad]
                ELSE IF r.started < r.planned
                THEN [r EXCEPT !.inflight = nb, !.started = @ + nb, !.ok = ok, !.bad = bad,
                               !.calls = @ \o [k \in 1 .. nb |->
                                                  Chunk(r.files, r.chunk, r.started + k)]]
                ELSE _aggregateParallelResults(r, ok, bad)
      [] r.impl = "batched" ->
            IF ~good
            THEN [r EXCEPT !.status = "rejected", !.error = "Execution failed",
                           !.inflight = 0, !.bad = 1]
            ELSE IF r.started < r.planned
            THEN [r EXCEPT !.started = @ + 1, !.ok = @ + 1,
                           !.calls = Append(@, Chunk(r.files, r.chunk, r.started + 1))]
            ELSE _aggregateBatchResults(r, r.ok + 1)

\* The call resolves (good), or rejects with an Error that has a message.
SettleCall(r, good) ==
    IF good THEN Tallied(r, TRUE)
    ELSE [Tallied(r, FALSE) EXCEPT !.rejections = @ + 1]

\* The call rejects with an Error of the adapter's own, whose message may be
\* the empty string, as `new Error()` has it. The fan-out keeps
\* { error: err.message, task } as the result of the call, and the
\* aggregation tells failures by `r.error` being truthy.
SettleRejected(r, message) ==
    IF r.impl = "parallel"
    THEN [Tallied(r, message = "") EXCEPT !.rejections = @ + 1]
    ELSE [Tallied(r, FALSE) EXCEPT !.rejections = @ + 1, !.error = message]

Event(type, strategy, error) ==
    [type |-> type, strategy |-> strategy, error |-> error, done |-> 0, total |-> 0]

\* The notifications emitted so far: a bag (notification -> how many times).
NoEvents == [e \in {} |-> 0]

Emit(bag, e) == (e :> (IF e \in DOMAIN bag THEN bag[e] + 1 ELSE 1)) @@ bag

\* Notifications the settling call makes the implementation emit.
SettleEmits(bag, r, good) ==
    IF r.impl = "batched" /\ good
    THEN Emit(bag, [type |-> "batch:completed", strategy |-> r.strategy, error |-> "",
                    done |-> r.ok + 1, total |-> r.planned])
    ELSE bag

(***************************************************************************)
(* Statistics                                                              *)
(***************************************************************************)
NoReasons == [m \in {} |-> 0]

\* failureReasons is a Map: reasonOrder holds its keys in insertion order.
EmptyStats ==
    [attempts |-> 0, successes |-> 0, failures |-> 0, failureReasons |-> NoReasons,
     reasonOrder |-> <<>>]

StatsOf(stats, strategy) ==
    IF strategy \in DOMAIN stats THEN stats[strategy] ELSE EmptyStats

_recordSuccess(stats, strategy) ==
    LET s == StatsOf(stats, strategy)
    IN  (strategy :> [s EXCEPT !.attempts = @ + 1, !.successes = @ + 1]) @@ stats

\* Mutant: a failure is not counted as an attempt.
_recordFailureOnly(stats, strategy, msg) ==
    LET s == StatsOf(stats, strategy)
        n == IF msg \in DOMAIN s.failureReasons THEN s.failureReasons[msg] ELSE 0
    IN  (strategy :> [s EXCEPT !.failures = @ + 1,
                               !.failureReasons = (msg :> (n + 1)) @@ @,
                               !.reasonOrder = IF n = 0 THEN Append(@, msg) ELSE @]) @@ stats

_recordFailure(stats, strategy, msg) ==
    LET s == StatsOf(stats, strategy)
        n == IF msg \in DOMAIN s.failureReasons THEN s.failureReasons[msg] ELSE 0
    IN  (strategy :> [s EXCEPT !.attempts = @ + 1, !.failures = @ + 1,
                               !.failureReasons = (msg :> (n + 1)) @@ @,
                               !.reasonOrder = IF n = 0 THEN Append(@, msg) ELSE @]) @@ stats

\* sort((a, b) => b[1] - a[1]): the sort is stable, so an entry goes behind
\* the entries that have at least its count.
RECURSIVE InsertByCount(_, _)
InsertByCount(e, sorted) ==
    IF sorted = <<>> THEN <<e>>
    ELSE IF Head(sorted).count >= e.count
    THEN <<Head(sorted)>> \o InsertByCount(e, Tail(sorted))
    ELSE <<e>> \o sorted

RECURSIVE SortByCount(_)
SortByCount(entries) ==
    IF entries = <<>> THEN <<>>
    ELSE InsertByCount(entries[Len(entries)], SortByCount(SubSeq(entries, 1, Len(entries) - 1)))

\* Array.from(data.failureReasons.entries()).sort(...).slice(0, 3).map(...)
topFailureReasons(data) ==
    Slice(SortByCount([i \in DOMAIN data.reasonOrder |->
                          [reason |-> data.reasonOrder[i],
                           count |-> data.failureReasons[data.reasonOrder[i]]]]), 0, 3)

\* getStatistics(): the counters of every strategy that was ever executed
getStatistics(stats) ==
    [s \in DOMAIN stats |->
        [attempts |-> stats[s].attempts, successes |-> stats[s].successes,
         failures |-> stats[s].failures, topFailureReasons |-> topFailureReasons(stats[s])]]

(***************************************************************************)
(* Inputs of the strategy engine                                           *)
(***************************************************************************)
Caps(streaming, subAgents, parallelExecution) ==
    [maxContextTokens |-> 200000, supportedLanguages |-> {}, multiFile |-> TRUE,
     streaming |-> streaming, subAgents |-> subAgents,
     features |-> [f \in {"parallelExecution"} |-> parallelExecution]]

ExecAdapter(caps, subEntry, streamEntry) ==
    [name |-> "test-adapter", caps |-> caps,
     hasExecuteWithSubAgents |-> subEntry, hasExecuteWithStreaming |-> streamEntry]

\* The adapters the strategy object is constructed with: no advanced feature,
\* every feature (with and without the optional entry points), one feature each.
ExecAdapters ==
    { ExecAdapter(Caps(FALSE, Absent, Absent), TRUE, TRUE),
      ExecAdapter(Caps(TRUE, Detailed(TRUE, 3), Detailed(TRUE, 2)), TRUE, TRUE),
      ExecAdapter(Caps(TRUE, Detailed(TRUE, 3), Flag(TRUE)), FALSE, FALSE),
      ExecAdapter(Caps(TRUE, Absent, Flag(FALSE)), TRUE, FALSE),
      ExecAdapter(Caps(FALSE, Absent, Flag(TRUE)), FALSE, FALSE),
      ExecAdapter(Caps(FALSE, Detailed(TRUE, 3), Absent), TRUE, FALSE) }

ShortDescription == [len |-> 4, hasStream |-> FALSE]

LongStreamDescription == [len |-> 501, hasStream |-> TRUE]

FileCounts == {0, 3}

ManyFiles == ManyFilesForBatched + 1

\* (task.executionStrategy, extensions[adapter.name].executionStrategy)
ExplicitChoices ==
    { <<NoStrategy, NoStrategy>>, <<"parallel", NoStrategy>>, <<"sequential", NoStrategy>>,
      <<"parallel", "streaming">>, <<NoStrategy, "subAgents">> }

ExecTask(ty, cx, d, n, st, e) ==
    [type |-> ty, complexity |-> cx, description |-> d, files |-> n,
     streaming |-> st, executionStrategy |-> e[1], extension |-> e[2]]

ExecTasks ==
    { ExecTask(ty, cx, ShortDescription, n, FALSE, e) :
         ty \in {"generation", "validation", "analysis"}, cx \in {"high", "low"},
         n \in FileCounts, e \in ExplicitChoices }
    \cup
    { ExecTask("analysis", "low", d, 0, st, <<NoStrategy, NoStrategy>>) :
         d \in {ShortDescription, LongStreamDescription}, st \in BOOLEAN }
    \cup
    { ExecTask(ty, "low", ShortDescription, ManyFiles, FALSE, <<NoStrategy, NoStrategy>>) :
         ty \in {"generation", "analysis"} }

ExecOptions ==
    { [strategies |-> defaultStrategies, timeout |-> 0, batchSize |-> 0],
      [strategies |-> <<"subAgents", "batched", "sequential">>, timeout |-> 100, batchSize |-> 3] }

(***************************************************************************)
(* OrchestrationStrategy.execute                                           *)
(***************************************************************************)
Attempt(strategy, status, detail, duration) ==
    [strategy |-> strategy, status |-> status, detail |-> detail, duration |-> duration]

Skipped(strategy, reason) == Attempt(strategy, "skipped", reason, "0")

Succeeded(strategy) == Attempt(strategy, "success", "", "measured")

Failed(strategy, msg) == Attempt(strategy, "failed", msg, "measured")

\* { ...result, strategy, attempts, totalDuration }
Decorated(result, strategy, att) ==
    [strategy |-> strategy, attempts |-> att, totalDuration |-> "measured"] @@ result

ExecInit ==
    /\ adapter \in ExecAdapters
    /\ task = None
    /\ options = None
    /\ pc = "idle"
    /\ idx = 0
    /\ attempts = <<>>
    /\ cur = None
    /\ background = {}
    /\ executed = <<>>
    /\ strategyStats = [s \in {} |-> EmptyStats]
    /\ events = NoEvents
    /\ outcome = None
    /\ registry = <<>>
    /\ defaultVersions = <<>>
    /\ metrics = <<>>
    /\ preferences = None
    /\ routingCache = <<>>
    /\ now = 0
    /\ routes = 0
    /\ batch = None
    /\ returned = [op |-> "none", arg |-> None, value |-> None, threw |-> ""]
    /\ emitted = <<>>

\* execute(task, options) up to its first await.
Execute(t, o) ==
    /\ pc = "idle"
    /\ task' = t
    /\ options' = o
    /\ attempts' = <<>>
    /\ LET explicitStrategy == _getExplicitStrategy(t)
       IN  IF explicitStrategy # NoStrategy
           THEN /\ cur' = _executeStrategy(explicitStrategy, adapter, t, o)
                /\ executed' = <<explicitStrategy>>
                /\ pc' = "explicit"
                /\ idx' = 0
           ELSE /\ cur' = None
                /\ executed' = <<>>
                /\ pc' = "chain"
                /\ idx' = 1
    /\ UNCHANGED <<nonExecVars, adapter, background, strategyStats, events, outcome>>

\* An adapter call of the awaited implementation settles.
AdapterSettles(good) ==
    /\ pc \in {"explicit", "chain"}
    /\ cur.kind = "run"
    /\ cur.status = "running"
    /\ cur' = SettleCall(cur, good)
    /\ events' = SettleEmits(events, cur, good)
    /\ UNCHANGED <<nonExecVars, adapter, task, options, pc, idx, attempts, background,
                   executed, strategyStats, outcome>>

\* An adapter call of the awaited implementation rejects with an Error of
\* the adapter's own.
AdapterRejectsWith(message) ==
    /\ pc \in {"explicit", "chain"}
    /\ cur.kind = "run"
    /\ cur.status = "running"
    /\ cur' = SettleRejected(cur, message)
    /\ UNCHANGED <<nonExecVars, adapter, task, options, pc, idx, attempts, background,
                   executed, strategyStats, events, outcome>>

\* The explicit strategy's promise has settled: return its result as it is,
\* or record the failure and fall into the chain.
ExplicitSettled ==
    /\ pc = "explicit"
    /\ cur.status # "running"
    /\ IF cur.status = "resolved"
       THEN /\ strategyStats' = _recordSuccess(strategyStats, cur.strategy)
            /\ outcome' = [kind |-> "resolved", value |-> cur.result]
            /\ pc' = "resolved"
            /\ idx' = idx
       ELSE /\ strategyStats' = _recordFailure(strategyStats, cur.strategy, cur.error)
            /\ outcome' = outcome
            /\ pc' = "chain"
            /\ idx' = 1
    /\ cur' = None
    /\ UNCHANGED <<nonExecVars, adapter, task, options, attempts, background, executed, events>>

Candidate == options.strategies[idx]

AtCandidate ==
    /\ pc = "chain"
    /\ cur.kind = "none"
    /\ idx <= Len(options.strategies)

ChainSkip ==
    /\ AtCandidate
    /\ ~(_isStrategyAvailable(adapter, Candidate) /\ _isStrategySuitable(Candidate, task))
    /\ attempts' = Append(attempts,
            IF ~_isStrategyAvailable(adapter, Candidate)
            THEN Skipped(Candidate, "Not available")
            ELSE Skipped(Candidate, "Not suitable for task"))
    /\ idx' = idx + 1
    /\ UNCHANGED <<nonExecVars, adapter, task, options, pc, cur, background, executed,
                   strategyStats, events, outcome>>

ChainStart ==
    /\ AtCandidate
    /\ _isStrategyAvailable(adapter, Candidate)
    /\ _isStrategySuitable(Candidate, task)
    /\ cur' = _executeWithTimeout(_executeStrategy(Candidate, adapter, task, options),
                                  TimeoutFor(options, Candidate))
    /\ executed' = Append(executed, Candidate)
    /\ UNCHANGED <<nonExecVars, adapter, task, options, pc, idx, attempts, background,
                   strategyStats, events, outcome>>

\* The awaited race was won by the implementation.
ChainSettled ==
    /\ pc = "chain"
    /\ cur.kind = "run"
    /\ cur.status # "running"
    /\ IF cur.status = "resolved"
       THEN /\ strategyStats' = _recordSuccess(strategyStats, cur.strategy)
            /\ attempts' = Append(attempts, Succeeded(cur.strategy))
            /\ events' = Emit(events, Event("strategy:success", cur.strategy, ""))
            /\ outcome' = [kind |-> "resolved",
                           value |-> Decorated(cur.result, cur.strategy, attempts')]
            /\ pc' = "resolved"
            /\ idx' = idx
       ELSE /\ strategyStats' = _recordFailure(strategyStats, cur.strategy, cur.error)
            /\ attempts' = Append(attempts, Failed(cur.strategy, cur.error))
            /\ events' = Emit(events, Event("strategy:failed", cur.strategy, cur.error))
            /\ outcome' = outcome
            /\ pc' = pc
            /\ idx' = idx + 1
    /\ cur' = None
    /\ UNCHANGED <<nonExecVars, adapter, task, options, background, executed>>

\* The tallies of a fan-out that lost the race are never read again: nobody
\* awaits its aggregate.
Forget(r) ==
    IF r.impl = "parallel" THEN [r EXCEPT !.ok = 0, !.bad = 0, !.rejections = 0] ELSE r

\* The awaited race was won by the timer; the implementation is not cancelled.
Timeout ==
    /\ pc = "chain"
    /\ cur.kind = "run"
    /\ cur.status = "running"
    /\ background' = background \cup {Forget(cur)}
    /\ strategyStats' = _recordFailure(strategyStats, cur.strategy, "Strategy timeout")
    /\ attempts' = Append(attempts, Failed(cur.strategy, "Strategy timeout"))
    /\ events' = Emit(events, Event("strategy:failed", cur.strategy, "Strategy timeout"))
    /\ idx' = idx + 1
    /\ cur' = None
    /\ UNCHANGED <<nonExecVars, adapter, task, options, pc, executed, outcome>>

\* The loop is over without a success.
Exhausted ==
    /\ pc = "chain"
    /\ cur.kind = "none"
    /\ idx > Len(options.strategies)
    /\ outcome' = [kind |-> "rejected",
                   value |-> [message |-> "All execution strategies failed",
                              attempts |-> attempts, duration |-> "measured"]]
    /\ events' = Emit(events, Event("strategy:exhausted", "", ""))
    /\ pc' = "rejected"
    /\ UNCHANGED <<nonExecVars, adapter, task, options, idx, attempts, cur, background,
                   executed, strategyStats>>

\* An adapter call of an implementation that lost the timeout race settles.
BackgroundSettles(z, good) ==
    /\ z \in background
    /\ LET z2 == Forget(SettleCall(z, good))
       IN  background' = IF z2.status = "running"
                         THEN (background \ {z}) \cup {z2}
                         ELSE background \ {z}
    /\ events' = SettleEmits(events, z, good)
    /\ UNCHANGED <<nonExecVars, adapter, task, options, pc, idx, attempts, cur, executed,
                   strategyStats, outcome>>

ExecNext ==
    \/ \E t \in ExecTasks, o \in ExecOptions : Execute(t, o)
    \/ \E good \in BOOLEAN : AdapterSettles(good)
    \/ ExplicitSettled
    \/ ChainSkip
    \/ ChainStart
    \/ ChainSettled
    \/ Timeout
    \/ Exhausted
    \/ \E z \in background, good \in BOOLEAN : BackgroundSettles(z, good)

SpecExec == ExecInit /\ [][ExecNext]_vars

(***************************************************************************)
(* The strategy engine on tasks that differ in the number of their files   *)
(***************************************************************************)
NoFeatureAdapter == ExecAdapter(Caps(FALSE, Absent, Absent), TRUE, TRUE)

\* No advanced feature; parallel execution with maxConcurrent 2; parallel
\* execution as a plain flag, which has no configuration.
FileAdapters ==
    { NoFeatureAdapter,
      ExecAdapter(Caps(FALSE, Absent, Detailed(TRUE, 2)), FALSE, FALSE),
      ExecAdapter(Caps(FALSE, Absent, Flag(TRUE)), FALSE, FALSE) }

\* Fewer files than a batch, more than a batch of 3, as many as and more than
\* batched asks for.
FileTasks ==
    { ExecTask("analysis", "low", ShortDescription, n, FALSE, <<e, NoStrategy>>) :
         n \in {2, 4, ManyFilesForBatched, ManyFiles}, e \in {NoStrategy, "batched"} }

FileOptions ==
    { [strategies |-> defaultStrategies, timeout |-> 0, batchSize |-> 0],
      [strategies |-> defaultStrategies, timeout |-> 0, batchSize |-> 3] }

FileInit ==
    /\ adapter \in FileAdapters
    /\ task = None
    /\ options = None
    /\ pc = "idle"
    /\ idx = 0
    /\ attempts = <<>>
    /\ cur = None
    /\ background = {}
    /\ executed = <<>>
    /\ strategyStats = [s \in {} |-> EmptyStats]
    /\ events = NoEvents
    /\ outcome = None
    /\ registry = <<>>
    /\ defaultVersions = <<>>
    /\ metrics = <<>>
    /\ preferences = None
    /\ routingCache = <<>>
    /\ now = 0
    /\ routes = 0
    /\ batch = None
    /\ returned = [op |-> "none", arg |-> None, value |-> None, threw |-> ""]
    /\ emitted = <<>>

FileNext ==
    \/ \E t \in FileTasks, o \in FileOptions : Execute(t, o)
    \/ \E good \in BOOLEAN : AdapterSettles(good)
    \/ ExplicitSettled
    \/ ChainSkip
    \/ ChainStart
    \/ ChainSettled
    \/ Timeout
    \/ Exhausted
    \/ \E z \in background, good \in BOOLEAN : BackgroundSettles(z, good)

SpecFiles == FileInit /\ [][FileNext]_vars

(***************************************************************************)
(* One strategy object serving one execute call after the other            *)
(***************************************************************************)
MaxAttempted == 3

\* Strategy executions recorded so far
RECURSIVE Attempted(_)
Attempted(stats) ==
    IF DOMAIN stats = {} THEN 0
    ELSE LET s == CHOOSE x \in DOMAIN stats : TRUE
         IN  stats[s].attempts + Attempted([x \in DOMAIN stats \ {s} |-> stats[x]])

ParallelAdapter == ExecAdapter(Caps(FALSE, Absent, Detailed(TRUE, 2)), FALSE, FALSE)

StatTasks ==
    { ExecTask("analysis", "low", ShortDescription, 0, FALSE, <<NoStrategy, NoStrategy>>),
      ExecTask("analysis", "low", ShortDescription, 0, FALSE, <<"sequential", NoStrategy>>),
      ExecTask("validation", "low", ShortDescription, 2, FALSE, <<"parallel", NoStrategy>>) }

StatOptions ==
    { [strategies |-> <<"subAgents", "parallel", "sequential">>, timeout |-> 0, batchSize |-> 0] }

AdapterMessages == {"", "Network timeout"}

StatInit ==
    /\ FileInit
    /\ adapter = ParallelAdapter

\* The caller has its result or error and the strategy object is idle again;
\* its statistics, and what still runs after a lost race, stay.
ExecuteReturned ==
    /\ pc \in {"resolved", "rejected"}
    /\ pc' = "idle"
    /\ task' = None
    /\ options' = None
    /\ idx' = 0
    /\ attempts' = <<>>
    /\ executed' = <<>>
    /\ events' = NoEvents
    /\ outcome' = None
    /\ UNCHANGED <<nonExecVars, adapter, cur, background, strategyStats>>

StatNext ==
    \/ \E t \in StatTasks, o \in StatOptions :
          Attempted(strategyStats) < MaxAttempted /\ Execute(t, o)
    \/ \E good \in BOOLEAN : AdapterSettles(good)
    \/ \E message \in AdapterMessages : pc # "idle" /\ AdapterRejectsWith(message)
    \/ ExplicitSettled
    \/ ChainSkip
    \/ ChainStart
    \/ ChainSettled
    \/ Timeout
    \/ Exhausted
    \/ \E z \in background, good \in BOOLEAN : BackgroundSettles(z, good)
    \/ ExecuteReturned

SpecStats == StatInit /\ [][StatNext]_vars

\* The same engine with adapters that also throw errors without a message.
FailureNext ==
    \/ FileNext
    \/ pc # "idle" /\ AdapterRejectsWith("")

SpecFailures == FileInit /\ [][FailureNext]_vars

(***************************************************************************)
(* The strategy engine under adapters whose calls may never settle         *)
(***************************************************************************)
\* Tasks with and without an explicitly requested strategy
TimerTasks ==
    { ExecTask("analysis", "low", ShortDescription, n, FALSE, <<e, NoStrategy>>) :
         n \in {0, 2}, e \in {NoStrategy, "sequential", "parallel"} }

TimerNext ==
    \/ \E t \in TimerTasks, o \in FileOptions : Execute(t, o)
    \/ \E good \in BOOLEAN : AdapterSettles(good)
    \/ ExplicitSettled
    \/ ChainSkip
    \/ ChainStart
    \/ ChainSettled
    \/ Timeout
    \/ Exhausted
    \/ \E z \in background, good \in BOOLEAN : BackgroundSettles(z, good)

\* setTimeout callbacks fire and the continuations of settled promises run;
\* nothing makes an adapter call settle.
TimersFire ==
    /\ WF_vars(Timeout)
    /\ WF_vars(ExplicitSettled)
    /\ WF_vars(ChainSkip)
    /\ WF_vars(ChainStart)
    /\ WF_vars(ChainSettled)
    /\ WF_vars(Exhausted)

SpecTimers == FileInit /\ [][TimerNext]_vars /\ TimersFire

(***************************************************************************)
(* The strategy engine over the ways a profile can declare a feature       *)
(***************************************************************************)
\* subAgents: {supported: false}, subAgents: false, subAgents: true,
\* every feature declared and on, no feature declared.
ProfileAdapters ==
    { ExecAdapter(Caps(FALSE, Detailed(FALSE, 0), Absent), TRUE, TRUE),
      ExecAdapter(Caps(FALSE, Flag(FALSE), Flag(FALSE)), TRUE, TRUE),
      ExecAdapter(Caps(FALSE, Flag(TRUE), Absent), TRUE, FALSE),
      ExecAdapter(Caps(TRUE, Detailed(TRUE, 3), Detailed(TRUE, 2)), TRUE, TRUE),
      ExecAdapter(Caps(TRUE, Absent, Flag(TRUE)), FALSE, FALSE),
      NoFeatureAdapter }

ProfileTasks ==
    { ExecTask(ty, "high", ShortDescription, n, FALSE, <<e, NoStrategy>>) :
         ty \in {"generation", "validation"}, n \in {0, 3},
         e \in {NoStrategy, "subAgents", "streaming", "parallel", "sequential"} }

ProfileInit ==
    /\ adapter \in ProfileAdapters
    /\ task = None
    /\ options = None
    /\ pc = "idle"
    /\ idx = 0
    /\ attempts = <<>>
    /\ cur = None
    /\ background = {}
    /\ executed = <<>>
    /\ strategyStats = [s \in {} |-> EmptyStats]
    /\ events = NoEvents
    /\ outcome = None
    /\ registry = <<>>
    /\ defaultVersions = <<>>
    /\ metrics = <<>>
    /\ preferences = None
    /\ routingCache = <<>>
    /\ now = 0
    /\ routes = 0
    /\ batch = None
    /\ returned = [op |-> "none", arg |-> None, value |-> None, threw |-> ""]
    /\ emitted = <<>>

ProfileNext ==
    \/ \E t \in ProfileTasks, o \in FileOptions : Execute(t, o)
    \/ \E good \in BOOLEAN : AdapterSettles(good)
    \/ ExplicitSettled
    \/ ChainSkip
    \/ ChainStart
    \/ ChainSettled
    \/ Timeout
    \/ Exhausted
    \/ \E z \in background, good \in BOOLEAN : BackgroundSettles(z, good)

SpecProfiles == ProfileInit /\ [][ProfileNext]_vars

(***************************************************************************)
(* The strategy engine over adapters whose executeTask is reliable         *)
(***************************************************************************)
\* The default candidates, and a list without sequential.
ReliableOptions ==
    { [strategies |-> defaultStrategies, timeout |-> 0, batchSize |-> 0],
      [strategies |-> <<"subAgents", "streaming">>, timeout |-> 0, batchSize |-> 0] }

\* executeTask calls resolve; calls of the other entry points settle either way.
ReliableSettles(good) ==
    /\ AdapterSettles(good)
    /\ cur.entry = "executeTask" => good

\* A single executeTask call settles before its timer; an implementation
\* that awaits another entry point or several calls may lose the race.
ReliableTimeout ==
    /\ Timeout
    /\ cur.entry # "executeTask" \/ cur.impl # "single"

ReliableBackgroundSettles(z, good) ==
    /\ BackgroundSettles(z, good)
    /\ z.entry = "executeTask" => good

ReliableNext ==
    \/ \E t \in ProfileTasks, o \in ReliableOptions : Execute(t, o)
    \/ \E good \in BOOLEAN : ReliableSettles(good)
    \/ ExplicitSettled
    \/ ChainSkip
    \/ ChainStart
    \/ ChainSettled
    \/ ReliableTimeout
    \/ Exhausted
    \/ \E z \in background, good \in BOOLEAN : ReliableBackgroundSettles(z, good)

\* The continuations of settled promises run, and every awaited adapter call
\* has an outcome: it settles or its implementation loses the timeout race.
OutcomesArrive ==
    /\ WF_vars(ExplicitSettled)
    /\ WF_vars(ChainSkip)
    /\ WF_vars(ChainStart)
    /\ WF_vars(ChainSettled)
    /\ WF_vars(Exhausted)
    /\ WF_vars(ReliableTimeout \/ \E good \in BOOLEAN : ReliableSettles(good))

SpecReliable == ProfileInit /\ [][ReliableNext]_vars /\ OutcomesArrive

(***************************************************************************)
(* Exact arithmetic for scores (JavaScript numbers that are fractions)     *)
(***************************************************************************)
RECURSIVE Gcd(_, _)
Gcd(a, b) == IF b = 0 THEN a ELSE Gcd(b, a % b)

Rat(n, d) == LET g == Gcd(IF n < 0 THEN -n ELSE n, d)
             IN  IF g = 0 THEN [n |-> 0, d |-> 1] ELSE [n |-> n \div g, d |-> d \div g]

RInt(n) == [n |-> n, d |-> 1]

RAdd(x, y) == Rat(x.n * y.d + y.n * x.d, x.d * y.d)

RMul(x, y) == Rat(x.n * y.n, x.d * y.d)

RLess(x, y) == x.n * y.d < y.n * x.d

RMin(x, y) == IF RLess(x, y) THEN x ELSE y

(***************************************************************************)
(* AdapterRegistry                                                         *)
(*   registry  _adapters in iteration order of the nested maps: entries    *)
(*             [name, version, adapter], the versions of one name adjacent *)
(*   defaultVersions   _defaultVersions                                    *)
(*   metrics   _metrics: one map for two kinds of entry, the `name`        *)
(*             entries of registerAdapter (a new Map()) and the            *)
(*             `name:version` entries of recordMetrics (the statistics)    *)
(***************************************************************************)
Range(f) == {f[i] : i \in DOMAIN f}

Names(reg) == {reg[i].name : i \in DOMAIN reg}

HasVersion(reg, name, version) ==
    \E i \in DOMAIN reg : reg[i].name = name /\ reg[i].version = version

EntryOf(reg, name, version) ==
    reg[CHOOSE i \in DOMAIN reg : reg[i].name = name /\ reg[i].version = version]

\* getAdapter(name, version = null): the empty version string is falsy and
\* stands for the default version of the name.
getAdapter(reg, defaults, name, version) ==
    IF name \notin {reg[i].name : i \in DOMAIN reg} THEN None
    ELSE LET targetVersion ==
                 IF version # <<>> THEN version
                 ELSE IF name \in DOMAIN defaults THEN defaults[name] ELSE <<>>
         IN  IF targetVersion = <<>> THEN None
             ELSE IF HasVersion(reg, name, targetVersion)
             THEN EntryOf(reg, name, targetVersion).adapter
             ELSE None

\* A version is a string: the sequence of its characters, digits and dots.
DigitChars == <<"0", "1", "2", "3", "4", "5", "6", "7", "8", "9">>

DigitOf(c) == (CHOOSE i \in DOMAIN DigitChars : DigitChars[i] = c) - 1

\* The UTF-16 code unit of a character of a version
CharCode(c) == IF c = "." THEN 46 ELSE 48 + DigitOf(c)

\* String.prototype.split('.'): the pieces between the dots
RECURSIVE Split(_)
Split(str) ==
    IF str = <<>> THEN << <<>> >>
    ELSE LET init == Split(SubSeq(str, 1, Len(str) - 1))
             c    == str[Len(str)]
         IN  IF c = "." THEN Append(init, <<>>)
             ELSE [init EXCEPT ![Len(init)] = Append(@, c)]

\* Number(piece) of a piece of decimal digits; Number('') is 0.
RECURSIVE Number(_)
Number(piece) ==
    IF piece = <<>> THEN 0
    ELSE 10 * Number(SubSeq(piece, 1, Len(piece) - 1)) + DigitOf(piece[Len(piece)])

Parts(version) == LET pieces == Split(version)
                  IN  [i \in DOMAIN pieces |-> Number(pieces[i])]

\* aParts[i] || 0
PartOr0(parts, i) == IF i \in DOMAIN parts THEN parts[i] ELSE 0

Max(a, b) == IF a < b THEN b ELSE a

\* Mutant: the versions are compared as strings, code unit by code unit.
RECURSIVE VersionComparatorByCodeUnits(_, _)
VersionComparatorByCodeUnits(a, b) ==
    IF a = <<>> /\ b = <<>> THEN 0
    ELSE IF a = <<>> THEN -1
    ELSE IF b = <<>> THEN 1
    ELSE IF a[1] # b[1] THEN CharCode(a[1]) - CharCode(b[1])
    ELSE VersionComparatorByCodeUnits(Tail(a), Tail(b))

_versionComparator(a, b) ==
    LET aParts == Parts(a)
        bParts == Parts(b)
        differing == {i \in 1..Max(Len(aParts), Len(bParts)) :
                         PartOr0(aParts, i) # PartOr0(bParts, i)}
    IN  IF differing = {} THEN 0
        ELSE LET i == CHOOSE i \in differing : \A j \in differing : i <= j
             IN  PartOr0(aParts, i) - PartOr0(bParts, i)

\* Array.prototype.sort(comparator) is stable: of two versions that compare
\* equal the one that came first stays first.
RECURSIVE InsertVersion(_, _)
InsertVersion(v, sorted) ==
    IF sorted = <<>> THEN <<v>>
    ELSE IF _versionComparator(v, sorted[1]) < 0 THEN <<v>> \o sorted
    ELSE <<sorted[1]>> \o InsertVersion(v, Tail(sorted))

RECURSIVE SortVersions(_)
SortVersions(versions) ==
    IF versions = <<>> THEN <<>>
    ELSE InsertVersion(versions[Len(versions)],
                       SortVersions(SubSeq(versions, 1, Len(versions) - 1)))

\* versions.sort(this._versionComparator).pop()
_compareVersions(versions) ==
    LET sorted == SortVersions(versions) IN sorted[Len(sorted)]

\* Array.from(versionMap.keys())
listVersions(reg, name) ==
    LET own == SelectSeq(reg, LAMBDA e : e.name = name)
    IN  [i \in DOMAIN own |-> own[i].version]

getLatestAdapter(reg, name) ==
    IF name \notin {reg[i].name : i \in DOMAIN reg} THEN None
    ELSE EntryOf(reg, name, _compareVersions(listVersions(reg, name))).adapter

\* versionMap.set(version, adapter): an existing key keeps its position, a new
\* version goes behind the other versions of the name, a new name to the end.
SetAdapter(reg, name, version, a) ==
    LET e == [name |-> name, version |-> version, adapter |-> a]
    IN  IF HasVersion(reg, name, version)
        THEN [i \in DOMAIN reg |->
                 IF reg[i].name = name /\ reg[i].version = version THEN e ELSE reg[i]]
        ELSE IF name \in Names(reg)
        THEN LET last == CHOOSE i \in DOMAIN reg :
                            /\ reg[i].name = name
                            /\ \A j \in DOMAIN reg : reg[j].name = name => j <= i
             IN  SubSeq(reg, 1, last) \o <<e>> \o SubSeq(reg, last + 1, Len(reg))
        ELSE Append(reg, e)

Capability(points, req, cap) == [points |-> points, req |-> req, cap |-> cap]

capabilityChecks ==
    << Capability(3, "multiFile", "multiFile"),
       Capability(2, "streaming", "streaming"),
       Capability(5, "subAgents", "subAgents.supported") >>

RequirementFlag(requirements, req) ==
    CASE req = "multiFile" -> requirements.multiFile
      [] req = "streaming" -> requirements.streaming
      [] req = "subAgents" -> requirements.subAgents

\* The three tallies of _calculateCapabilityScore after each block.
FeatureTally(a, requirements) ==
    LET matched == {i \in DOMAIN requirements.features :
                        supportsFeature(a.caps, requirements.features[i])}
    IN  [required |-> Len(requirements.features),
         matched  |-> Cardinality(matched),
         score    |-> RInt(10 * Cardinality(matched))]

ContextTally(a, requirements) ==
    IF requirements.minContextTokens = 0
    THEN [required |-> 0, matched |-> 0, score |-> RInt(0)]
    ELSE IF a.caps.maxContextTokens >= requirements.minContextTokens
    THEN LET ratio == Rat(a.caps.maxContextTokens, requirements.minContextTokens)
         IN  [required |-> 1, matched |-> 1,
              score |-> RAdd(RInt(5), RMin(RAdd(ratio, RInt(-1)), RInt(5)))]
    ELSE [required |-> 1, matched |-> 0, score |-> RInt(0)]

\* requirements.languages is an array: an empty one is still truthy.
LanguageTally(a, requirements) ==
    LET requiredLangs == Range(requirements.languages)
        matchingLangs == requiredLangs \cap a.caps.supportedLanguages
    IN  IF Cardinality(matchingLangs) = Cardinality(requiredLangs)
        THEN [required |-> 1, matched |-> 1, score |-> RInt(5)]
        ELSE IF Cardinality(matchingLangs) > 0
        THEN [required |-> 1, matched |-> 0,
              score |-> Rat(5 * Cardinality(matchingLangs), Cardinality(requiredLangs))]
        ELSE [required |-> 1, matched |-> 0, score |-> RInt(0)]

CheckTally(a, requirements, check) ==
    IF RequirementFlag(requirements, check.req)
    THEN IF supportsFeature(a.caps, check.cap)
         THEN [required |-> 1, matched |-> 1, score |-> RInt(check.points)]
         ELSE [required |-> 1, matched |-> 0, score |-> RInt(0)]
    ELSE [required |-> 0, matched |-> 0, score |-> RInt(0)]

Tallies(a, requirements) ==
    << FeatureTally(a, requirements), ContextTally(a, requirements),
       LanguageTally(a, requirements) >>
    \o [i \in 1..Len(capabilityChecks) |-> CheckTally(a, requirements, capabilityChecks[i])]

RECURSIVE SumTallies(_)
SumTallies(ts) ==
    IF ts = <<>> THEN [required |-> 0, matched |-> 0, score |-> RInt(0)]
    ELSE LET rest == SumTallies(Tail(ts))
         IN  [required |-> ts[1].required + rest.required,
              matched  |-> ts[1].matched + rest.matched,
              score    |-> RAdd(ts[1].score, rest.score)]

\* Mutant: the final "all requirements met" check is missing.
ScoreWithoutFinalCheck(a, requirements) == SumTallies(Tallies(a, requirements)).score

_calculateCapabilityScore(a, requirements) ==
    LET total == SumTallies(Tallies(a, requirements))
    IN  IF total.required > 0 /\ total.matched < total.required
        THEN RInt(0)
        ELSE total.score

\* Array.prototype.sort((a, b) => b.score - a.score): stable, highest first.
RECURSIVE InsertByScore(_, _)
InsertByScore(m, sorted) ==
    IF sorted = <<>> THEN <<m>>
    ELSE IF RLess(sorted[1].score, m.score) THEN <<m>> \o sorted
    ELSE <<sorted[1]>> \o InsertByScore(m, Tail(sorted))

RECURSIVE SortByScore(_)
SortByScore(ms) ==
    IF ms = <<>> THEN <<>>
    ELSE InsertByScore(ms[Len(ms)], SortByScore(SubSeq(ms, 1, Len(ms) - 1)))

Match(e, score) ==
    [name |-> e.name, version |-> e.version, adapter |-> e.adapter, score |-> score]

findMatchingAdapters(reg, requirements) ==
    LET scored == [i \in DOMAIN reg |->
                      Match(reg[i], _calculateCapabilityScore(reg[i].adapter, requirements))]
    IN  SortByScore(SelectSeq(scored, LAMBDA m : RLess(RInt(0), m.score)))

\* A registered name that reads like the statistics key of another adapter
NameWithColon == "alpha:1.0.0"

\* The characters of a name, as far as keys tell them apart: a name without
\* a colon is one piece.
Chars(name) ==
    IF name = NameWithColon THEN <<"alpha", ":", "1", ".", "0", ".", "0">> ELSE <<name>>

\* `${name}:${version}`
MetricsKey(name, version) == Chars(name) \o <<":">> \o version

\* What registerAdapter stores under the name: new Map()
NewMap == [kind |-> "map"]

\* A Map whose statistics properties recordMetrics has written: arithmetic
\* on the undefined properties gives NaN.
NaNStats(failures) ==
    [kind |-> "map", totalExecutions |-> "NaN", totalDuration |-> "NaN",
     failures |-> failures, avgDuration |-> "NaN", successRate |-> "NaN"]

\* getAdapterMetrics: the stored record, or the all-zero default.
NoMetrics ==
    [totalExecutions |-> 0, totalDuration |-> 0, failures |-> 0,
     avgDuration |-> RInt(0), successRate |-> RInt(1)]

getAdapterMetrics(mets, name, version) ==
    IF MetricsKey(name, version) \in DOMAIN mets
    THEN mets[MetricsKey(name, version)]
    ELSE NoMetrics

\* if (metrics.avgDuration): undefined, NaN and 0 are falsy
HasAvgDuration(m) == "kind" \notin DOMAIN m /\ m.avgDuration.n # 0

\* Mutant: preferred adapters get a boost of 20%.
WeakPreferredBoost == Rat(6, 5)

PreferredBoost == Rat(3, 2)

\* 1 + min((1000 / avgDuration) * 0.1, 0.3)
SpeedBoost(avgDuration) ==
    RAdd(RInt(1), RMin(RMul(Rat(1000 * avgDuration.d, avgDuration.n), Rat(1, 10)), Rat(3, 10)))

selectOptimalAdapter(reg, mets, requirements, prefs) ==
    LET matches == findMatchingAdapters(reg, requirements)
        \* preferredAdapters is an array (an empty one boosts nobody)
        preferred ==
            SortByScore([i \in DOMAIN matches |->
                    IF matches[i].name \in Range(prefs.preferredAdapters)
                    THEN [matches[i] EXCEPT !.score = RMul(@, PreferredBoost)]
                    ELSE matches[i]])
        boosted ==
            IF prefs.considerPerformance
            THEN SortByScore([i \in DOMAIN preferred |->
                    LET m == getAdapterMetrics(mets, preferred[i].name, preferred[i].version)
                    IN  IF HasAvgDuration(m)
                        THEN [preferred[i] EXCEPT !.score = RMul(@, SpeedBoost(m.avgDuration))]
                        ELSE preferred[i]])
            ELSE preferred
    IN  IF matches = <<>> THEN None ELSE boosted[1]

(***************************************************************************)
(* TaskRouter                                                              *)
(* A task description is the set of (lower-case) words it contains.        *)
(***************************************************************************)
CacheTTL == 5

MaxCacheSize == 1000

EvictCount == 100

TokensPerFile == 500

CharsPerToken == 4

BucketSize == 1000

defaultFallbackStrategies == <<"subAgents", "parallel", "streaming", "sequential">>

taskTypeFeatures(type) ==
    CASE type = "comprehension" -> <<"comprehension", "explanation">>
      [] type = "generation"    -> <<"generation", "refactoring">>
      [] type = "validation"    -> <<"validation", "testing">>
      [] type = "exploration"   -> <<"exploration", "debugging">>
      [] type = "refactoring"   -> <<"refactoring", "generation">>
      [] type = "testing"       -> <<"testing", "generation">>
      [] type = "documentation" -> <<"documentation", "generation">>
      [] OTHER                  -> <<>>

\* languagePatterns, in the order of the object's keys; each pattern matches
\* whole words.
languagePatterns ==
    << [lang |-> "javascript", words |-> {"javascript", "js", "node", "npm"}],
       [lang |-> "typescript", words |-> {"typescript", "ts", "tsx"}],
       [lang |-> "python",     words |-> {"python", "py", "pip"}],
       [lang |-> "java",       words |-> {"java", "maven", "gradle"}],
       [lang |-> "go",         words |-> {"go", "golang"}],
       [lang |-> "rust",       words |-> {"rust", "cargo"}],
       [lang |-> "c++",        words |-> {"c++", "cpp"}] >>

\* description.includes(sub), for the words a description is made of.
Includes(description, sub) ==
    CASE sub = "stream"    -> description \cap {"stream", "streaming"} # {}
      [] sub = "real-time" -> "real-time" \in description
      [] sub = "delegate"  -> "delegate" \in description
      [] sub = "sub-agent" -> "sub-agent" \in description
      [] sub = "parallel"  -> "parallel" \in description
      [] sub = "distribute" -> "distribute" \in description
      [] OTHER             -> FALSE

_estimateContextSize(context) ==
    context.files * TokensPerFile
        + CeilDiv(context.content, CharsPerToken)
        + CeilDiv(context.code, CharsPerToken)

\* Mutant: the feature list is returned as it was collected.
KeepDuplicates(seq) == seq

\* [...new Set(seq)]: first occurrences, in order.
RECURSIVE Dedupe(_)
Dedupe(seq) ==
    IF seq = <<>> THEN <<>>
    ELSE LET init == Dedupe(SubSeq(seq, 1, Len(seq) - 1))
             x    == seq[Len(seq)]
         IN  IF x \in Range(init) THEN init ELSE Append(init, x)

RECURSIVE ExtensionFeatures(_)
ExtensionFeatures(exts) ==
    IF exts = <<>> THEN <<>> ELSE exts[1].features \o ExtensionFeatures(Tail(exts))

\* task.extensions is the sequence of its entries [vendor, executionStrategy,
\* subAgents, streaming, features]; a task without context has context = None.
analyzeTask(t) ==
    LET description == t.description
    IN  [features |-> Dedupe(taskTypeFeatures(t.type) \o ExtensionFeatures(t.extensions)),
         minContextTokens |->
             IF t.context = None THEN 0 ELSE _estimateContextSize(t.context),
         languages |->
             LET hit == SelectSeq(languagePatterns,
                                  LAMBDA lp : lp.words \cap description # {})
             IN  [i \in DOMAIN hit |-> hit[i].lang],
         multiFile |-> t.context # None /\ t.context.files > 1,
         streaming |->
             \/ Includes(description, "stream")
             \/ Includes(description, "real-time")
             \/ \E i \in DOMAIN t.extensions : t.extensions[i].streaming,
         subAgents |->
             \/ Includes(description, "delegate")
             \/ Includes(description, "sub-agent")
             \/ Includes(description, "parallel")
             \/ Includes(description, "distribute")
             \/ \E i \in DOMAIN t.extensions : t.extensions[i].subAgents]

\* Array.prototype.sort() of strings: by code units. SortOrder lists the
\* strings in use in that order.
SortOrder ==
    << "alpha", "beta", "c++", "comprehension", "debugging", "documentation", "explanation",
       "exploration", "fast-mode", "generation", "go", "java", "javascript",
       "python", "refactoring", "rust", "testing", "typescript", "validation" >>

Position(x) == CHOOSE i \in DOMAIN SortOrder : SortOrder[i] = x

RECURSIVE InsertSorted(_, _)
InsertSorted(x, sorted) ==
    IF sorted = <<>> THEN <<x>>
    ELSE IF Position(x) < Position(sorted[1]) THEN <<x>> \o sorted
    ELSE <<sorted[1]>> \o InsertSorted(x, Tail(sorted))

RECURSIVE SortStrings(_)
SortStrings(seq) ==
    IF seq = <<>> THEN <<>>
    ELSE InsertSorted(seq[Len(seq)], SortStrings(SubSeq(seq, 1, Len(seq) - 1)))

\* The JSON text of the key is one-to-one with this record.
_generateCacheKey(t) ==
    LET requirements == analyzeTask(t)
    IN  [type |-> t.type,
         features |-> SortStrings(requirements.features),
         contextSize |-> requirements.minContextTokens \div BucketSize,
         languages |-> SortStrings(requirements.languages),
         flags |-> [multiFile |-> requirements.multiFile,
                    streaming |-> requirements.streaming,
                    subAgents |-> requirements.subAgents]]

\* this._estimateContextSize(task.context || {})
ContextSizeOf(t) == IF t.context = None THEN 0 ELSE _estimateContextSize(t.context)

\* seq.join(','): the pieces with a comma between neighbours
RECURSIVE Join(_)
Join(seq) ==
    IF Len(seq) <= 1 THEN seq ELSE <<seq[1], ",">> \o Join(Tail(seq))

\* Object.keys(task.extensions || {}).sort().join(',')
ExtensionKeys(t) == Join(SortStrings([i \in DOMAIN t.extensions |-> t.extensions[i].vendor]))

Abs(x) == IF x < 0 THEN -x ELSE x

\* |size1 - size2| / max(size1, size2) > 0.2; for two empty contexts the
\* quotient is NaN and the comparison is false.
SizesDiffer(size1, size2) == 5 * Abs(size1 - size2) > Max(size1, size2)

_areSimilarTasks(task1, task2) ==
    /\ task1.type = task2.type
    /\ ~SizesDiffer(ContextSizeOf(task1), ContextSizeOf(task2))
    /\ ExtensionKeys(task1) = ExtensionKeys(task2)

\* The inner loop of _groupSimilarTasks from position j on: the group of
\* `first` and the ids processed.
RECURSIVE FindSimilar(_, _, _, _, _)
FindSimilar(tasks, first, j, group, processed) ==
    IF j > Len(tasks) THEN [group |-> group, processed |-> processed]
    ELSE IF tasks[j].id \in processed
    THEN FindSimilar(tasks, first, j + 1, group, processed)
    ELSE IF _areSimilarTasks(first, tasks[j])
    THEN FindSimilar(tasks, first, j + 1, Append(group, tasks[j]),
                     processed \cup {tasks[j].id})
    ELSE FindSimilar(tasks, first, j + 1, group, processed)

\* The outer loop of _groupSimilarTasks from position i on.
RECURSIVE GroupFrom(_, _, _, _)
GroupFrom(tasks, i, groups, processed) ==
    IF i > Len(tasks) THEN groups
    ELSE IF tasks[i].id \in processed
    THEN GroupFrom(tasks, i + 1, groups, processed)
    ELSE \* bind the result of the inner loop once
         CHOOSE result \in
            { GroupFrom(tasks, i + 1, Append(groups, found.group), found.processed) :
                found \in {FindSimilar(tasks, tasks[i], 1, <<tasks[i]>>,
                                       processed \cup {tasks[i].id})} } : TRUE

_groupSimilarTasks(tasks) == GroupFrom(tasks, 1, <<>>, {})

\* The routing cache is the sequence of its entries [key, route] in insertion
\* order.
CacheKeys(cache) == {cache[i].key : i \in DOMAIN cache}

CacheGet(cache, key) == LET i == CHOOSE i \in DOMAIN cache : cache[i].key = key
                        IN  cache[i].route

CacheDelete(cache, key) == SelectSeq(cache, LAMBDA e : e.key # key)

CacheSet(cache, key, route) ==
    IF key \in CacheKeys(cache)
    THEN [i \in DOMAIN cache |->
             IF cache[i].key = key THEN [key |-> key, route |-> route] ELSE cache[i]]
    ELSE Append(cache, [key |-> key, route |-> route])

\* Mutant: an entry expires as soon as its age reaches the time-to-live.
GetCachedRouteEarlyExpiry(cache, key, time) ==
    IF key \notin CacheKeys(cache)
    THEN [route |-> None, cache |-> cache]
    ELSE IF time - CacheGet(cache, key).timestamp >= CacheTTL
    THEN [route |-> None, cache |-> CacheDelete(cache, key)]
    ELSE [route |-> CacheGet(cache, key), cache |-> cache]

\* Mutant: entries never expire.
GetCachedRouteNoExpiry(cache, key, time) ==
    IF key \notin CacheKeys(cache)
    THEN [route |-> None, cache |-> cache]
    ELSE [route |-> CacheGet(cache, key), cache |-> cache]

\* _getCachedRoute: the valid entry or None, and the cache it leaves behind.
_getCachedRoute(cache, key, time) ==
    IF key \notin CacheKeys(cache)
    THEN [route |-> None, cache |-> cache]
    ELSE IF time - CacheGet(cache, key).timestamp > CacheTTL
    THEN [route |-> None, cache |-> CacheDelete(cache, key)]
    ELSE [route |-> CacheGet(cache, key), cache |-> cache]

\* The entry a stable sort by timestamp puts first.
Oldest(cache) ==
    CHOOSE i \in DOMAIN cache :
        \A j \in DOMAIN cache :
            \/ cache[i].route.timestamp < cache[j].route.timestamp
            \/ cache[i].route.timestamp = cache[j].route.timestamp /\ i <= j

RECURSIVE EvictOldest(_, _)

\* Mutant: the entries inserted last are removed.
EvictNewest(cache, n) == SubSeq(cache, 1, Len(cache) - n)

EvictOldest(cache, n) ==
    IF n = 0 \/ cache = <<>> THEN cache
    ELSE EvictOldest(CacheDelete(cache, cache[Oldest(cache)].key), n - 1)

\* Mutant: the decision is not stored.
CacheRouteNothing(cache, key, route) == cache

_cacheRoute(cache, key, route) ==
    LET stored == CacheSet(cache, key, route)
    IN  IF Len(stored) > MaxCacheSize THEN EvictOldest(stored, EvictCount) ELSE stored

\* adapter.getVendorExtensions?.(task, adapter.name)?.executionStrategy
VendorStrategy(a, t) ==
    IF a.hasGetVendorExtensions
          /\ \E i \in DOMAIN t.extensions : t.extensions[i].vendor = a.name
    THEN LET i == CHOOSE i \in DOMAIN t.extensions : t.extensions[i].vendor = a.name
         IN  t.extensions[i].executionStrategy
    ELSE NoStrategy

RECURSIVE FirstFallback(_, _, _, _)

\* Mutant: parallel is chosen without asking the adapter.
FirstFallbackUnchecked(fallbacks, i, a, requirements) ==
    IF "parallel" \in Range(fallbacks) THEN "parallel" ELSE "sequential"

\* The first strategy of the list, from position i on, that the switch returns.
FirstFallback(fallbacks, i, a, requirements) ==
    IF i > Len(fallbacks) THEN "sequential"
    ELSE CASE fallbacks[i] = "subAgents"
                /\ requirements.subAgents /\ supportsFeature(a.caps, "subAgents")
                -> "subAgents"
           [] fallbacks[i] = "parallel" /\ supportsFeature(a.caps, "parallelExecution")
                -> "parallel"
           [] fallbacks[i] = "streaming"
                /\ requirements.streaming /\ supportsFeature(a.caps, "streaming")
                -> "streaming"
           [] fallbacks[i] = "sequential" -> "sequential"
           [] OTHER -> FirstFallback(fallbacks, i + 1, a, requirements)

_selectStrategy(a, t, requirements, prefs) ==
    IF VendorStrategy(a, t) # NoStrategy
    THEN VendorStrategy(a, t)
    ELSE FirstFallback(prefs.fallbackStrategies, 1, a, requirements)

(***************************************************************************)
(* Inputs of the registry and the router                                   *)
(***************************************************************************)
MaxExecutions == 1

MaxRoutes == 2

MaxTime == 6

AdapterNames == {"alpha", "beta"}

\* '1.0.0'
V1 == <<"1", ".", "0", ".", "0">>

\* '2.0.0'
V2 == <<"2", ".", "0", ".", "0">>

Versions == {V1, V2}

NoVersion == <<>>

FeatureNames == {"generation", "refactoring", "validation", "testing", "parallelExecution"}

Features(on, detailed, off) ==
    [f \in FeatureNames |->
        IF f \in on THEN Flag(TRUE)
        ELSE IF f \in detailed THEN Detailed(TRUE, 2)
        ELSE IF f \in off THEN Flag(FALSE)
        ELSE Absent]

RegisteredAdapter(name, caps, vendorExt) ==
    [name |-> name, caps |-> caps, hasGetVendorExtensions |-> vendorExt]

\* The adapter instance that is registered under a name and version.
AdapterFor(name, version) ==
    CASE name = "alpha" /\ version = V1 ->
            RegisteredAdapter("alpha",
                [maxContextTokens |-> 600, supportedLanguages |-> {"python"},
                 multiFile |-> FALSE, streaming |-> FALSE, subAgents |-> Absent,
                 features |-> Features({"generation", "refactoring"}, {}, {"testing"})], TRUE)
      [] name = "alpha" /\ version = V2 ->
            RegisteredAdapter("alpha",
                [maxContextTokens |-> 200000, supportedLanguages |-> {"python", "javascript"},
                 multiFile |-> TRUE, streaming |-> TRUE, subAgents |-> Detailed(TRUE, 3),
                 features |-> Features({"generation", "validation", "testing"},
                                       {"refactoring", "parallelExecution"}, {})], TRUE)
      [] name = "beta" /\ version = V1 ->
            RegisteredAdapter("beta",
                [maxContextTokens |-> 4000, supportedLanguages |-> {"python"},
                 multiFile |-> TRUE, streaming |-> TRUE, subAgents |-> Detailed(FALSE, 0),
                 features |-> Features({"generation", "refactoring", "validation",
                                        "parallelExecution"}, {}, {"testing"})], FALSE)
      [] name = "ghost" ->
            \* the caller has no instance and passes null
            None
      [] OTHER ->
            \* one release per version, told apart by its context window
            RegisteredAdapter(name,
                [maxContextTokens |-> 1000 * PartOr0(Parts(version), 1)
                                        + 100 * PartOr0(Parts(version), 2),
                 supportedLanguages |-> {"python"},
                 multiFile |-> FALSE, streaming |-> FALSE, subAgents |-> Absent,
                 features |-> Features({"generation"}, {}, {})], FALSE)

\* The (name, version) pairs adapters are registered under.
Registrations == {<<"alpha", V1>>, <<"alpha", V2>>, <<"beta", V1>>}

\* (multiFile, streaming, subAgents) of a requirement profile
RequirementFlags == {<<FALSE, FALSE, FALSE>>, <<TRUE, TRUE, FALSE>>, <<FALSE, FALSE, TRUE>>}

Requirements ==
    { [features |-> f, minContextTokens |-> c, languages |-> l,
       multiFile |-> g[1], streaming |-> g[2], subAgents |-> g[3]] :
        f \in {<<>>, <<"generation", "refactoring">>, <<"generation", "testing">>},
        c \in {0, 1500},
        l \in {<<>>, <<"python", "javascript">>},
        g \in RequirementFlags }

RouterPreferences ==
    { [preferredAdapters |-> <<>>, considerPerformance |-> TRUE,
       fallbackStrategies |-> defaultFallbackStrategies],
      [preferredAdapters |-> <<"beta">>, considerPerformance |-> FALSE,
       fallbackStrategies |-> <<"streaming", "parallel", "sequential">>] }

Extension(vendor, strategy, subAgents, streaming, features) ==
    [vendor |-> vendor, executionStrategy |-> strategy, subAgents |-> subAgents,
     streaming |-> streaming, features |-> features]

RouterTask(type, context, description, executionStrategy, extensions) ==
    [type |-> type, context |-> context, description |-> description,
     executionStrategy |-> executionStrategy, extensions |-> extensions]

Context(files, content) == [files |-> files, content |-> content, code |-> 0]

\* One generation task of one file, the same with more content in the same
\* 1,000-token bucket, with a strategy override at task level and in the
\* extensions of either vendor; a validation task that asks for streaming; a
\* task that asks for delegation and carries extension requirements.
RouterTasks ==
    { RouterTask("generation", Context(1, 0), {}, NoStrategy, <<>>),
      RouterTask("generation", Context(1, 1996), {}, NoStrategy, <<>>),
      RouterTask("generation", Context(1, 0), {}, "streaming", <<>>),
      RouterTask("generation", Context(1, 0), {}, NoStrategy,
                 <<Extension("alpha", "subAgents", FALSE, FALSE, <<>>)>>),
      RouterTask("generation", Context(1, 0), {}, NoStrategy,
                 <<Extension("beta", "streaming", FALSE, FALSE, <<>>)>>),
      RouterTask("validation", Context(3, 0), {"python", "stream"}, NoStrategy, <<>>),
      RouterTask("documentation", None, {"delegate"}, NoStrategy,
                 <<Extension("beta", NoStrategy, FALSE, TRUE, <<"generation", "fast-mode">>)>>) }

(***************************************************************************)
(* AdapterRegistry and TaskRouter: operations                              *)
(***************************************************************************)
Call(op, arg, value, threw) == [op |-> op, arg |-> arg, value |-> value, threw |-> threw]

NoCall == Call("none", None, None, "")

Notification(type, name, detail) == [type |-> type, name |-> name, detail |-> detail]

RegistryInit ==
    /\ registry = <<>>
    /\ defaultVersions = <<>>
    /\ metrics = <<>>

RouterInit ==
    /\ preferences \in RouterPreferences
    /\ routingCache = <<>>
    /\ now = 0
    /\ routes = 0
    /\ batch = None

CallInit ==
    /\ returned = NoCall
    /\ emitted = <<>>

\* Mutant: a version becomes the default only when the caller asks for it.
registerAdapterDefaultOnRequest(name, version, setAsDefault) ==
    /\ registry' = SetAdapter(registry, name, version, AdapterFor(name, version))
    /\ defaultVersions' =
          IF setAsDefault THEN (name :> version) @@ defaultVersions ELSE defaultVersions
    /\ metrics' = IF Chars(name) \in DOMAIN metrics THEN metrics
                  ELSE (Chars(name) :> NewMap) @@ metrics
    /\ emitted' = <<Notification("adapter:registered", name, version)>>
    /\ returned' = Call("registerAdapter", <<name, version, setAsDefault>>, None, "")
    /\ UNCHANGED <<execVars, routerVars>>

\* registerAdapter(name, adapter, version, setAsDefault) with the adapter
\* instance of that name and version.
registerAdapter(name, version, setAsDefault) ==
    /\ IF name = "" \/ AdapterFor(name, version) = None
       THEN /\ returned' = Call("registerAdapter", <<name, version, setAsDefault>>, None,
                                "Name and adapter are required")
            /\ emitted' = <<>>
            /\ UNCHANGED registryVars
       ELSE /\ registry' = SetAdapter(registry, name, version, AdapterFor(name, version))
            /\ defaultVersions' =
                  IF setAsDefault \/ name \notin DOMAIN defaultVersions
                  THEN (name :> version) @@ defaultVersions
                  ELSE defaultVersions
            /\ metrics' = IF Chars(name) \in DOMAIN metrics THEN metrics
                          ELSE (Chars(name) :> NewMap) @@ metrics
            /\ emitted' = <<Notification("adapter:registered", name, version)>>
            /\ returned' = Call("registerAdapter", <<name, version, setAsDefault>>, None, "")
    /\ UNCHANGED <<execVars, routerVars>>

RemoveKey(f, k) == [x \in DOMAIN f \ {k} |-> f[x]]

unregisterAdapter(name, version) ==
    /\ IF name \notin Names(registry)
       THEN /\ UNCHANGED <<registry, defaultVersions>>
            /\ emitted' = <<>>
       ELSE /\ emitted' = <<Notification("adapter:unregistered", name, version)>>
            /\ IF version # NoVersion
               THEN LET left == SelectSeq(registry,
                                    LAMBDA e : ~(e.name = name /\ e.version = version))
                    IN  /\ registry' = left
                        /\ defaultVersions' =
                             IF name \notin Names(left)
                             THEN RemoveKey(defaultVersions, name)
                             ELSE IF name \in DOMAIN defaultVersions
                                       /\ defaultVersions[name] = version
                             THEN LET first == CHOOSE i \in DOMAIN left :
                                                  /\ left[i].name = name
                                                  /\ \A j \in DOMAIN left :
                                                        left[j].name = name => i <= j
                                  IN  (name :> left[first].version) @@ defaultVersions
                             ELSE defaultVersions
               ELSE /\ registry' = SelectSeq(registry, LAMBDA e : e.name # name)
                    /\ defaultVersions' = RemoveKey(defaultVersions, name)
    /\ returned' = Call("unregisterAdapter", <<name, version>>, None, "")
    /\ UNCHANGED <<execVars, metrics, routerVars>>

setDefaultVersion(name, version) ==
    /\ IF ~HasVersion(registry, name, version)
       THEN /\ returned' = Call("setDefaultVersion", <<name, version>>, None, "not found")
            /\ emitted' = <<>>
            /\ UNCHANGED defaultVersions
       ELSE /\ defaultVersions' = (name :> version) @@ defaultVersions
            /\ emitted' = <<Notification("adapter:default-changed", name, version)>>
            /\ returned' = Call("setDefaultVersion", <<name, version>>, None, "")
    /\ UNCHANGED <<execVars, registry, metrics, routerVars>>

\* The statistics object after one more execution. The object is the one
\* stored under the key, which is a Map when the key is a registered name.
Accumulate(stats, duration, failed) ==
    IF "kind" \in DOMAIN stats
    THEN NaNStats(IF failed THEN "NaN"
                  ELSE IF "failures" \in DOMAIN stats THEN stats.failures ELSE "undefined")
    ELSE LET totalExecutions == stats.totalExecutions + 1
             totalDuration == stats.totalDuration + duration
             failures == IF failed THEN stats.failures + 1 ELSE stats.failures
         IN  [totalExecutions |-> totalExecutions,
              totalDuration |-> totalDuration,
              failures |-> failures,
              avgDuration |-> Rat(totalDuration, totalExecutions),
              successRate |-> Rat(totalExecutions - failures, totalExecutions)]

\* Executions recorded under a key, for the bounds of the specifications
Recorded(mets, name, version) ==
    IF "kind" \in DOMAIN getAdapterMetrics(mets, name, version)
    THEN 0
    ELSE getAdapterMetrics(mets, name, version).totalExecutions

recordMetrics(name, version, duration, failed) ==
    /\ metrics' = (MetricsKey(name, version) :>
                      Accumulate(getAdapterMetrics(metrics, name, version), duration, failed))
                  @@ metrics
    /\ emitted' = <<>>
    /\ returned' = Call("recordMetrics", <<name, version, duration, failed>>, None, "")
    /\ UNCHANGED <<execVars, registry, defaultVersions, routerVars>>

GetAdapter(name, version) ==
    /\ returned' = Call("getAdapter", <<name, version>>,
                        getAdapter(registry, defaultVersions, name, version), "")
    /\ emitted' = <<>>
    /\ UNCHANGED <<execVars, registryVars, routerVars>>

GetAdapterMetrics(name, version) ==
    /\ returned' = Call("getAdapterMetrics", <<name, version>>,
                        getAdapterMetrics(metrics, name, version), "")
    /\ emitted' = <<>>
    /\ UNCHANGED <<execVars, registryVars, routerVars>>

SelectOptimal(requirements, prefs) ==
    /\ returned' = Call("selectOptimalAdapter", <<requirements, prefs>>,
                        selectOptimalAdapter(registry, metrics, requirements, prefs), "")
    /\ emitted' = <<>>
    /\ UNCHANGED <<execVars, registryVars, routerVars>>

GetLatest(name) ==
    /\ returned' = Call("getLatestAdapter", name, getLatestAdapter(registry, name), "")
    /\ emitted' = <<>>
    /\ UNCHANGED <<execVars, registryVars, routerVars>>

FindMatching(requirements) ==
    /\ returned' = Call("findMatchingAdapters", requirements,
                        findMatchingAdapters(registry, requirements), "")
    /\ emitted' = <<>>
    /\ UNCHANGED <<execVars, registryVars, routerVars>>

\* The decision route builds for a selection.
RoutingDecision(selection, t, requirements, prefs, time) ==
    [adapter |-> selection.adapter,
     adapterName |-> selection.name,
     adapterVersion |-> selection.version,
     strategy |-> _selectStrategy(selection.adapter, t, requirements, prefs),
     requirements |-> requirements,
     score |-> selection.score,
     timestamp |-> time]

\* route has no await: a call runs to completion before any other call.
routeCall(t) ==
    \E cacheKey \in {_generateCacheKey(t)}, requirements \in {analyzeTask(t)} :
    \E cached \in {_getCachedRoute(routingCache, cacheKey, now)} :
        /\ routes' = routes + 1
        /\ IF cached.route # None
           THEN /\ emitted' = <<Notification("route:cache-hit", cached.route.adapter.name, "")>>
                /\ returned' = Call("route", t, cached.route, "")
                /\ routingCache' = cached.cache
           ELSE \E selection \in
                    {selectOptimalAdapter(registry, metrics, requirements, preferences)} :
                IF selection = None
                THEN /\ emitted' = <<>>
                     /\ returned' = Call("route", t, None,
                                         "No suitable adapter found for task requirements")
                     /\ routingCache' = cached.cache
                ELSE \E routingDecision \in
                         {RoutingDecision(selection, t, requirements, preferences, now)} :
                     /\ routingCache' = _cacheRoute(cached.cache, cacheKey, routingDecision)
                     /\ emitted' = <<Notification("task:routed", selection.name,
                                                  routingDecision.strategy)>>
                     /\ returned' = Call("route", t, routingDecision, "")
        /\ UNCHANGED <<execVars, registryVars, preferences, now>>

\* route(task), called by a client of the router
route(t) == routeCall(t) /\ UNCHANGED batch

clearCache ==
    /\ routingCache' = <<>>
    /\ emitted' = <<Notification("cache:cleared", "", "")>>
    /\ returned' = Call("clearCache", None, None, "")
    /\ UNCHANGED <<execVars, registryVars, preferences, now, routes, batch>>

\* Time passes between two calls.
Tick(minutes) ==
    /\ now + minutes <= MaxTime
    /\ now' = now + minutes
    /\ UNCHANGED <<execVars, registryVars, preferences, routingCache, routes, batch,
                   callVars>>

(***************************************************************************)
(* routeBatch: the call runs up to its first await (grouping and the route  *)
(* call for the first group) and is resumed once per awaited route call.    *)
(***************************************************************************)
\* { ...primaryRoute, taskId: task.id, groupedRouting: true }
GroupedDecision(primaryRoute, t) ==
    [taskId |-> t.id, groupedRouting |-> TRUE] @@ primaryRoute

GroupDecisions(primaryRoute, group) ==
    [k \in DOMAIN group |-> GroupedDecision(primaryRoute, group[k])]

routeBatch(tasks) ==
    /\ batch = None
    /\ \E taskGroups \in {_groupSimilarTasks(tasks)} :
          IF taskGroups = <<>>
          THEN /\ returned' = Call("routeBatch", tasks, <<>>, "")
               /\ emitted' = <<>>
               /\ UNCHANGED <<execVars, registryVars, routerVars>>
          ELSE /\ routeCall(taskGroups[1][1])
               /\ batch' = [tasks |-> tasks, taskGroups |-> taskGroups, group |-> 1,
                            primaryRoute |-> returned'.value, threw |-> returned'.threw,
                            routingDecisions |-> <<>>, routeCalls |-> 1]

\* The awaited route call has settled.
routeBatchResumed ==
    /\ batch # None
    /\ IF batch.threw # ""
       THEN /\ returned' = Call("routeBatch", batch.tasks, None, batch.threw)
            /\ emitted' = <<>>
            /\ batch' = None
            /\ UNCHANGED <<execVars, registryVars, preferences, routingCache, now, routes>>
       ELSE \E routingDecisions \in
                {batch.routingDecisions
                    \o GroupDecisions(batch.primaryRoute, batch.taskGroups[batch.group])} :
            IF batch.group < Len(batch.taskGroups)
            THEN /\ routeCall(batch.taskGroups[batch.group + 1][1])
                 /\ batch' = [batch EXCEPT !.group = @ + 1,
                                           !.primaryRoute = returned'.value,
                                           !.threw = returned'.threw,
                                           !.routingDecisions = routingDecisions,
                                           !.routeCalls = @ + 1]
            ELSE /\ returned' = Call("routeBatch", batch.tasks, routingDecisions, "")
                 /\ emitted' = <<>>
                 /\ batch' = None
                 /\ UNCHANGED <<execVars, registryVars, preferences, routingCache, now,
                                routes>>

\* analyzeTask(task), called by a client of the router
AnalyzeTask(t) ==
    /\ returned' = Call("analyzeTask", t, analyzeTask(t), "")
    /\ emitted' = <<>>
    /\ UNCHANGED <<execVars, registryVars, routerVars>>

(***************************************************************************)
(* An adapter object on its own: capability queries and the adjustment of   *)
(* the Gemini adapter's profile to the version of the installed CLI.        *)
(***************************************************************************)
\* adapter.supportsFeature(feature), called by a client
SupportsFeature(feature) ==
    /\ returned' = Call("supportsFeature", feature, supportsFeature(adapter.caps, feature), "")
    /\ emitted' = <<>>
    /\ UNCHANGED <<execVars, registryVars, routerVars>>

\* version.match(/(\d+)\.(\d+)\.(\d+)/) finds three numbers
MatchesVersion(version) == Len(Split(version)) >= 3

\* What a 'capability:changed' listener is handed, and what supportsFeature
\* answers when the listener asks for the capability during the notification.
CapabilityChanged(capability, oldValue, newValue, visible) ==
    [type |-> "capability:changed", capability |-> capability,
     oldValue |-> oldValue, newValue |-> newValue, visible |-> visible]

\* The three assignments of _adjustCapabilitiesForVersion
AdjustedCapabilities(caps) ==
    [caps EXCEPT !.features =
                     [f \in DOMAIN caps.features |->
                         IF f \in {"parallelExecution", "codeExecution"}
                         THEN Flag(FALSE) ELSE caps.features[f]],
                 !.streaming = FALSE]

\* emitCapabilityChange runs the listeners before it returns.
emitCapabilityChange(caps, capability, oldValue, newValue) ==
    CapabilityChanged(capability, oldValue, newValue, supportsFeature(caps, capability))

_adjustCapabilitiesForVersion(version) ==
    /\ adapter.name = "gemini-cli"
    /\ IF MatchesVersion(version) /\ PartOr0(Parts(version), 1) < 2
       THEN \E caps \in {AdjustedCapabilities(adapter.caps)} :
               /\ adapter' = [adapter EXCEPT !.caps = caps]
               /\ emitted' = <<emitCapabilityChange(caps, "parallelExecution", TRUE, FALSE),
                               emitCapabilityChange(caps, "streaming", TRUE, FALSE)>>
       ELSE /\ adapter' = adapter
            /\ emitted' = <<>>
    /\ returned' = Call("_adjustCapabilitiesForVersion", version, None, "")
    /\ UNCHANGED <<task, options, pc, idx, attempts, cur, background, executed,
                   strategyStats, events, outcome, registryVars, routerVars>>

\* No strategy object is part of the registry and router specifications.
ExecIdle ==
    /\ adapter = None
    /\ task = None
    /\ options = None
    /\ pc = "unused"
    /\ idx = 0
    /\ attempts = <<>>
    /\ cur = None
    /\ background = {}
    /\ executed = <<>>
    /\ strategyStats = <<>>
    /\ events = <<>>
    /\ outcome = None

RegistrySpecInit ==
    /\ ExecIdle
    /\ RegistryInit
    /\ preferences = None
    /\ routingCache = <<>>
    /\ now = 0
    /\ routes = 0
    /\ batch = None
    /\ CallInit

\* The requirement profiles selectOptimalAdapter is called with
SelectRequirements ==
    {r \in Requirements : r.minContextTokens = 0 /\ ~r.multiFile /\ ~r.subAgents}

\* Calls without a name or without an adapter instance
MalformedRegistrations == {<<"", V1>>, <<"ghost", V1>>}

RegistryNext ==
    \/ \E r \in Registrations \cup MalformedRegistrations, d \in BOOLEAN :
          registerAdapter(r[1], r[2], d)
    \/ \E n \in AdapterNames, v \in Versions \cup {NoVersion} : unregisterAdapter(n, v)
    \/ \E n \in AdapterNames, v \in Versions : setDefaultVersion(n, v)
    \/ \E r \in Requirements : FindMatching(r)
    \/ \E r \in SelectRequirements, p \in RouterPreferences : SelectOptimal(r, p)
    \/ \E n \in AdapterNames, v \in Versions \cup {NoVersion} : GetAdapter(n, v)
    \/ \E n \in AdapterNames, v \in Versions : GetAdapterMetrics(n, v)
    \/ \E n \in AdapterNames : GetLatest(n)

SpecRegistry == RegistrySpecInit /\ [][RegistryNext]_vars

RouteInit ==
    /\ ExecIdle
    /\ RegistryInit
    /\ RouterInit
    /\ CallInit

RouteNext ==
    \/ \E r \in Registrations : registerAdapter(r[1], r[2], TRUE)
    \/ \E t \in RouterTasks : routes < MaxRoutes /\ route(t)
    \/ clearCache
    \/ \E m \in {CacheTTL, CacheTTL + 1} : Tick(m)

SpecRoute == RouteInit /\ [][RouteNext]_vars

(***************************************************************************)
(* The router over a registry that adapters are also removed from          *)
(***************************************************************************)
UnregisterTasks ==
    { RouterTask("generation", Context(1, 0), {}, NoStrategy, <<>>),
      RouterTask("validation", Context(3, 0), {"python", "stream"}, NoStrategy, <<>>) }

UnregisterNext ==
    \/ \E r \in Registrations : registerAdapter(r[1], r[2], TRUE)
    \/ \E n \in AdapterNames, v \in Versions \cup {NoVersion} : unregisterAdapter(n, v)
    \/ \E t \in UnregisterTasks : routes < MaxRoutes /\ route(t)
    \/ \E m \in {CacheTTL, CacheTTL + 1} : Tick(m)

SpecUnregister == RouteInit /\ [][UnregisterNext]_vars

(***************************************************************************)
(* Capability queries and capability changes                               *)
(***************************************************************************)
GeminiFeatureNames ==
    {"generation", "refactoring", "validation", "testing", "visionSupport",
     "parallelExecution", "codeExecution"}

\* The profile the Gemini adapter is constructed with
GeminiCapabilities ==
    [maxContextTokens |-> 1000000,
     supportedLanguages |-> {"javascript", "typescript", "python", "java", "go", "rust", "c++"},
     multiFile |-> TRUE, streaming |-> TRUE, subAgents |-> Detailed(FALSE, 0),
     features |-> [f \in GeminiFeatureNames |->
                      CASE f = "parallelExecution" -> Detailed(TRUE, 5)
                        [] f \in {"visionSupport", "codeExecution"} -> Detailed(TRUE, 0)
                        [] OTHER -> Flag(TRUE)]]

\* The Gemini adapter, the registered adapters, and a base adapter that has
\* no profile.
CapabilityAdapters ==
    { RegisteredAdapter("gemini-cli", GeminiCapabilities, TRUE),
      AdapterFor("alpha", V1), AdapterFor("alpha", V2), AdapterFor("beta", V1),
      RegisteredAdapter("base-adapter", None, FALSE) }

\* Names of profile keys, of feature flags, dotted names, names that are
\* nowhere in a profile, some of which every object inherits.
FeatureQueries ==
    {"multiFile", "streaming", "maxContextTokens", "subAgents", "generation",
     "testing", "parallelExecution", "codeExecution", "visionSupport", "subAgents.supported",
     "subAgents.maxConcurrent", "subAgents.delegate", "subAgents.valueOf",
     "nonExistent", "constructor", "toString"}

\* '1.5.0', and the output of a CLI that reports no version number
V1_5 == <<"1", ".", "5", ".", "0">>

CliVersions == {V1_5, V2, <<"2">>}

CapabilityInit ==
    /\ adapter \in CapabilityAdapters
    /\ task = None
    /\ options = None
    /\ pc = "unused"
    /\ idx = 0
    /\ attempts = <<>>
    /\ cur = None
    /\ background = {}
    /\ executed = <<>>
    /\ strategyStats = <<>>
    /\ events = <<>>
    /\ outcome = None
    /\ RegistryInit
    /\ preferences = None
    /\ routingCache = <<>>
    /\ now = 0
    /\ routes = 0
    /\ batch = None
    /\ CallInit

CapabilityNext ==
    \/ \E feature \in FeatureQueries : batch = None /\ SupportsFeature(feature)
    \/ \E version \in CliVersions : batch = None /\ _adjustCapabilitiesForVersion(version)

SpecCapabilities == CapabilityInit /\ [][CapabilityNext]_vars

(***************************************************************************)
(* Task migration between API versions (AIAgentAdapter)                    *)
(***************************************************************************)
MaxMigrations == 5

\* '1.0', '1.1', '1.2', '2.0'
ApiVersions ==
    { <<"1", ".", "0">>, <<"1", ".", "1">>, <<"1", ".", "2">>, <<"2", ".", "0">> }

\* `${fromVersion}->${toVersion}`
MigrationKey(fromVersion, toVersion) == fromVersion \o <<"-", ">">> \o toVersion

\* key.split('->'): the pieces between the arrows
RECURSIVE SplitArrow(_)
SplitArrow(key) ==
    IF key = <<>> THEN << <<>> >>
    ELSE IF Len(key) >= 2 /\ key[1] = "-" /\ key[2] = ">"
    THEN << <<>> >> \o SplitArrow(SubSeq(key, 3, Len(key)))
    ELSE LET rest == SplitArrow(Tail(key))
         IN  << <<key[1]>> \o rest[1] >> \o Tail(rest)

\* The handler a registration passes in: it marks the task with the step it
\* was registered for.
Handler(fromVersion, toVersion) == [from |-> fromVersion, to |-> toVersion]

\* _migrationHandlers is a Map: a sequence of entries in insertion order.
HandlerKeys(handlers) == {handlers[i].key : i \in DOMAIN handlers}

HandlerGet(handlers, key) ==
    handlers[CHOOSE i \in DOMAIN handlers : handlers[i].key = key].handler

\* Map.set: a new key goes last, a known key keeps its place.
HandlerSet(handlers, key, handler) ==
    IF key \in HandlerKeys(handlers)
    THEN [i \in DOMAIN handlers |->
             IF handlers[i].key = key THEN [key |-> key, handler |-> handler]
             ELSE handlers[i]]
    ELSE Append(handlers, [key |-> key, handler |-> handler])

NoPath == <<>>

\* The for loop over the handlers, from entry i on: every unvisited version
\* one step after the end of the path is marked and its path queued.
RECURSIVE Expand(_, _, _, _, _)
Expand(handlers, i, path, queue, visited) ==
    IF i > Len(handlers) THEN [queue |-> queue, visited |-> visited]
    ELSE LET pieces == SplitArrow(handlers[i].key)
         IN  IF Len(pieces) >= 2 /\ pieces[1] = path[Len(path)] /\ pieces[2] \notin visited
             THEN Expand(handlers, i + 1, path, Append(queue, Append(path, pieces[2])),
                         visited \cup {pieces[2]})
             ELSE Expand(handlers, i + 1, path, queue, visited)

\* The while loop of the search
RECURSIVE Search(_, _, _, _)
Search(handlers, queue, visited, toVersion) ==
    IF queue = <<>> THEN NoPath
    ELSE LET path == Head(queue)
         IN  IF path[Len(path)] = toVersion THEN path
             ELSE LET next == Expand(handlers, 1, path, Tail(queue), visited)
                  IN  Search(handlers, next.queue, next.visited, toVersion)

_findMigrationPath(handlers, fromVersion, toVersion) ==
    Search(handlers, <<<<fromVersion>>>>, {fromVersion}, toVersion)

\* Mutant: the last step of the path is left out.
StepsButLast(path) == [i \in 1 .. Len(path) - 2 |-> <<path[i], path[i + 1]>>]

\* for (let i = 0; i < path.length - 1; i++): the steps path[i] -> path[i + 1]
Steps(path) == [i \in 1 .. Len(path) - 1 |-> <<path[i], path[i + 1]>>]

Migrated(migratedTask) == [task |-> migratedTask, threw |-> ""]

\* The task is the sequence of marks the handlers have put on it.
RECURSIVE migrateTask(_, _, _, _)
RECURSIVE MigrateAlong(_, _, _)
MigrateAlong(handlers, migrated, steps) ==
    IF steps = <<>> \/ migrated.threw # "" THEN migrated
    ELSE MigrateAlong(handlers,
                      migrateTask(handlers, migrated.task, Head(steps)[1], Head(steps)[2]),
                      Tail(steps))

migrateTask(handlers, t, fromVersion, toVersion) ==
    IF MigrationKey(fromVersion, toVersion) \in HandlerKeys(handlers)
    THEN Migrated(Append(t, HandlerGet(handlers, MigrationKey(fromVersion, toVersion))))
    ELSE LET path == _findMigrationPath(handlers, fromVersion, toVersion)
         IN  IF path # NoPath
             THEN MigrateAlong(handlers, Migrated(t), Steps(path))
             ELSE [task |-> t, threw |-> "No migration path found from fromVersion to toVersion"]

\* The migrations that get registered: a chain 1.0 -> 1.1 -> 1.2 -> 2.0, a
\* short cut, a step back and a step from a version to itself.
Migrations ==
    { << <<"1", ".", "0">>, <<"1", ".", "1">> >>, << <<"1", ".", "1">>, <<"1", ".", "2">> >>,
      << <<"1", ".", "2">>, <<"2", ".", "0">> >>, << <<"1", ".", "0">>, <<"1", ".", "2">> >>,
      << <<"1", ".", "1">>, <<"1", ".", "0">> >>, << <<"2", ".", "0">>, <<"2", ".", "0">> >> }

MigratingAdapter(handlers) == [name |-> "test-migration", migrationHandlers |-> handlers]

MigrateInit ==
    /\ adapter = MigratingAdapter(<<>>)
    /\ task = None
    /\ options = None
    /\ pc = "unused"
    /\ idx = 0
    /\ attempts = <<>>
    /\ cur = None
    /\ background = {}
    /\ executed = <<>>
    /\ strategyStats = <<>>
    /\ events = <<>>
    /\ outcome = None
    /\ RegistryInit
    /\ preferences = None
    /\ routingCache = <<>>
    /\ now = 0
    /\ routes = 0
    /\ batch = None
    /\ CallInit

RegisterMigration(fromVersion, toVersion) ==
    /\ Len(adapter.migrationHandlers) < MaxMigrations
    /\ adapter' = MigratingAdapter(HandlerSet(adapter.migrationHandlers,
                                              MigrationKey(fromVersion, toVersion),
                                              Handler(fromVersion, toVersion)))
    /\ returned' = Call("registerMigration", None, None, "")
    /\ emitted' = <<>>
    /\ UNCHANGED <<task, options, pc, idx, attempts, cur, background, executed,
                   strategyStats, events, outcome, registryVars, routerVars>>

\* migrateTask(task, fromVersion, toVersion) on a task without marks; the
\* handlers of the model neither throw nor register migrations.
MigrateTask(fromVersion, toVersion) ==
    /\ \E migrated \in {migrateTask(adapter.migrationHandlers, <<>>, fromVersion, toVersion)} :
          returned' = Call("migrateTask", <<fromVersion, toVersion>>, migrated.task,
                           migrated.threw)
    /\ emitted' = <<>>
    /\ UNCHANGED <<execVars, registryVars, routerVars>>

MigrateNext ==
    \/ \E m \in Migrations : RegisterMigration(m[1], m[2])
    \/ \E fromVersion \in ApiVersions, toVersion \in ApiVersions :
          adapter.name # "" /\ MigrateTask(fromVersion, toVersion)

SpecMigrate == MigrateInit /\ [][MigrateNext]_vars

(***************************************************************************)
(* CoreEventAdapter: listeners on the orchestrator                         *)
(***************************************************************************)
MaxListeners == 3

MaxProcessed == 4

\* _getListenedEvents()
ListenedEvents ==
    {"taskQueued", "taskAssigned", "taskCompleted", "taskFailed", "taskTimeout",
     "costUpdate", "qualityGateResult", "agentCreated", "executionStarted",
     "executionCompleted", "cloud:sync:changes"}

\* The options a caller passes: the keys it names, with their values.
NewOptions ==
    { [k \in {"enabled"} |-> "true"], [k \in {"enabled"} |-> "false"],
      [k \in {"mode"} |-> "display"], [k \in {"mode"} |-> "shadow"] }

\* { ...this.options, ...newOptions }
Spread(base, over) ==
    [k \in DOMAIN base \cup DOMAIN over |-> IF k \in DOMAIN over THEN over[k] ELSE base[k]]

DefaultEventOptions == [k \in {"enabled", "mode"} |-> IF k = "enabled" THEN "true" ELSE "shadow"]

\* listeners[e]: how many of the adapter's handlers the orchestrator holds
\* for event e; eventsProcessed: metrics.eventsProcessed; collected: the
\* calls of collector.collect.
EventAdapter(opts, listeners, processed, collected) ==
    [name |-> "core-event-adapter", options |-> opts, listeners |-> listeners,
     eventsProcessed |-> processed, collected |-> collected]

NoListeners == [e \in ListenedEvents |-> 0]

\* orchestrator.on(e, handler) for every listened event
attachListeners(listeners) == [e \in ListenedEvents |-> listeners[e] + 1]

\* orchestrator.removeAllListeners()
detachListeners(listeners) == NoListeners

\* new CoreEventAdapter(orchestrator, collector, featureExtractor, options)
Constructed(opts) ==
    EventAdapter(Spread(DefaultEventOptions, opts),
                 IF Spread(DefaultEventOptions, opts)["enabled"] = "true"
                 THEN attachListeners(NoListeners) ELSE NoListeners,
                 0, 0)

ListenerInit ==
    /\ adapter \in {Constructed(<<>>), Constructed([k \in {"enabled"} |-> "false"])}
    /\ task = None
    /\ options = None
    /\ pc = "unused"
    /\ idx = 0
    /\ attempts = <<>>
    /\ cur = None
    /\ background = {}
    /\ executed = <<>>
    /\ strategyStats = <<>>
    /\ events = <<>>
    /\ outcome = None
    /\ RegistryInit
    /\ preferences = None
    /\ routingCache = <<>>
    /\ now = 0
    /\ routes = 0
    /\ batch = None
    /\ CallInit

updateConfiguration(newOptions) ==
    /\ \A e \in ListenedEvents : adapter.listeners[e] < MaxListeners
    /\ LET opts == Spread(adapter.options, newOptions)
       IN  IF opts["enabled"] # "true"
           THEN /\ adapter' = [adapter EXCEPT !.options = opts,
                                              !.listeners = detachListeners(@)]
                /\ emitted' = <<Notification("adapter:listeners-detached", "", "")>>
           ELSE /\ adapter' = [adapter EXCEPT !.options = opts,
                                              !.listeners = attachListeners(@)]
                /\ emitted' = <<Notification("adapter:listeners-attached", "", "")>>
    /\ returned' = Call("updateConfiguration", newOptions, None, "")
    /\ UNCHANGED <<task, options, pc, idx, attempts, cur, background, executed,
                   strategyStats, events, outcome, registryVars, routerVars>>

\* The orchestrator emits one event: each handler it holds for the event
\* runs, collects the event it created and updates the metrics.
OrchestratorEmits(e) ==
    /\ adapter.eventsProcessed < MaxProcessed
    /\ adapter' = [adapter EXCEPT !.eventsProcessed = @ + adapter.listeners[e],
                                  !.collected = @ + adapter.listeners[e]]
    /\ returned' = Call("emit", e, None, "")
    /\ emitted' = <<>>
    /\ UNCHANGED <<task, options, pc, idx, attempts, cur, background, executed,
                   strategyStats, events, outcome, registryVars, routerVars>>

ListenerNext ==
    \/ \E newOptions \in NewOptions : updateConfiguration(newOptions)
    \/ \E e \in {"taskQueued", "costUpdate"} : OrchestratorEmits(e)

SpecListeners == ListenerInit /\ [][ListenerNext]_vars

(***************************************************************************)
(* Requirement inference over tasks with and without vendor extensions     *)
(***************************************************************************)
\* Extension objects: none; one vendor that repeats a feature of the task
\* type and adds one; one that asks for streaming; two vendors that ask for
\* sub-agents and name the same feature twice.
ExtensionSets ==
    { <<>>,
      <<Extension("beta", NoStrategy, FALSE, FALSE, <<"generation", "fast-mode">>)>>,
      <<Extension("alpha", "streaming", FALSE, TRUE, <<>>)>>,
      <<Extension("alpha", NoStrategy, TRUE, FALSE, <<"testing">>),
        Extension("beta", NoStrategy, FALSE, FALSE, <<"testing", "validation">>)>> }

AnalyzedTasks ==
    { RouterTask(type, context, description, NoStrategy, extensions) :
        type \in {"generation", "validation", "documentation", "translation"},
        context \in {None, Context(1, 0), Context(3, 1996)},
        description \in {{}, {"python", "stream"}, {"delegate", "javascript"}},
        extensions \in ExtensionSets }

AnalyzeNext == \E t \in AnalyzedTasks : batch = None /\ AnalyzeTask(t)

SpecAnalyze == RouteInit /\ [][AnalyzeNext]_vars

(***************************************************************************)
(* Batches of tasks                                                        *)
(***************************************************************************)
MaxBatchRoutes == 4

\* A task without an id has id undefined.
NoId == "undefined"

BatchTask(id, type, context, extensions) ==
    [id |-> id, type |-> type, context |-> context, description |-> {},
     executionStrategy |-> NoStrategy, extensions |-> extensions]

\* Context sizes of 1,000, 1,200 and 840 tokens: the second and the third
\* are within 20% of the first and more than 20% apart from each other.
Size1000 == Context(2, 0)

Size1200 == Context(2, 800)

Size840 == Context(1, 1360)

\* Lists of tasks: three sizes around the first; two types; no ids; one id
\* twice; different extension keys; no context; no task at all.
BatchLists ==
    { << BatchTask("t1", "generation", Size1000, <<>>),
         BatchTask("t2", "generation", Size1200, <<>>),
         BatchTask("t3", "generation", Size840, <<>>) >>,
      << BatchTask("t1", "generation", Size1000, <<>>),
         BatchTask("t2", "validation", Size1000, <<>>) >>,
      << BatchTask(NoId, "generation", Size1000, <<>>),
         BatchTask(NoId, "generation", Size1000, <<>>) >>,
      << BatchTask("t1", "generation", Size1000, <<>>),
         BatchTask("t1", "validation", Size1200, <<>>) >>,
      << BatchTask("t1", "generation", Size1000, <<>>),
         BatchTask("t2", "generation", Size1000,
                   <<Extension("alpha", NoStrategy, FALSE, TRUE, <<>>)>>),
         BatchTask("t3", "generation", Size1000,
                   <<Extension("beta", NoStrategy, FALSE, FALSE, <<>>),
                     Extension("alpha", NoStrategy, FALSE, TRUE, <<>>)>>) >>,
      << BatchTask("t1", "validation", None, <<>>),
         BatchTask("t2", "validation", None, <<>>),
         BatchTask("t3", "documentation", None, <<>>) >>,
      << >> }

BatchNext ==
    \/ registry = <<>> /\ registerAdapter("alpha", V2, TRUE)
    \/ \E tasks \in BatchLists : routes < MaxBatchRoutes /\ routeBatch(tasks)
    \/ routeBatchResumed
    \/ clearCache
    \/ now = 0 /\ Tick(CacheTTL + 1)

SpecBatch == RouteInit /\ [][BatchNext]_vars

(***************************************************************************)
(* Performance records next to the other registry operations               *)
(***************************************************************************)
MaxRecorded == 2

\* metrics.duration of an execution: none reported (|| 0) or a length
MetricDurations == {0, 3}

MetricsRegistrations == {<<"alpha", V1>>, <<NameWithColon, V1>>}

MetricsNext ==
    \/ \E r \in MetricsRegistrations, d \in BOOLEAN : registerAdapter(r[1], r[2], d)
    \/ \E r \in MetricsRegistrations, v \in {V1, NoVersion} : unregisterAdapter(r[1], v)
    \/ \E r \in MetricsRegistrations : setDefaultVersion(r[1], r[2])
    \/ \E d \in MetricDurations, failed \in BOOLEAN :
          /\ Recorded(metrics, "alpha", V1) < MaxRecorded
          /\ recordMetrics("alpha", V1, d, failed)
    \/ GetAdapterMetrics("alpha", V1)

SpecMetrics == RegistrySpecInit /\ [][MetricsNext]_vars

(***************************************************************************)
(* Selection with preferences and performance history                      *)
(***************************************************************************)
\* metrics.duration of an execution, in milliseconds: one that earns the
\* full speed boost and one that earns next to none
SelectDurations == {1, 5000}

MeasuredAdapters == {<<"alpha", V1>>, <<"beta", V1>>}

SelectPreferences ==
    { [preferredAdapters |-> pa, considerPerformance |-> c,
       fallbackStrategies |-> defaultFallbackStrategies] :
         pa \in {<<"alpha">>, <<"beta">>}, c \in BOOLEAN }

SelectNext ==
    \/ \E r \in Registrations : registerAdapter(r[1], r[2], TRUE)
    \/ \E k \in MeasuredAdapters, d \in SelectDurations :
          /\ Recorded(metrics, k[1], k[2]) < MaxExecutions
          /\ recordMetrics(k[1], k[2], d, FALSE)
    \/ \E r \in {q \in SelectRequirements : q.languages = <<>>}, p \in SelectPreferences :
          SelectOptimal(r, p)

SpecSelect == RegistrySpecInit /\ [][SelectNext]_vars

(***************************************************************************)
(* The registry with many versions of one name                             *)
(***************************************************************************)
\* '9.0.0'
V9 == <<"9", ".", "0", ".", "0">>

\* '10.0.0'
V10 == <<"1", "0", ".", "0", ".", "0">>

\* '2.1'
V2_1 == <<"2", ".", "1">>

VersionStrings == {V1, V2, V2_1, V9, V10}

VersionsNext ==
    \/ \E v \in VersionStrings : registerAdapter("gamma", v, TRUE)
    \/ \E v \in VersionStrings \cup {NoVersion} : unregisterAdapter("gamma", v)
    \/ \E v \in VersionStrings : setDefaultVersion("gamma", v)
    \/ \E n \in {"gamma", "alpha"} : GetLatest(n)

SpecVersions == RegistrySpecInit /\ [][VersionsNext]_vars

(***************************************************************************)
(* The router under more distinct tasks than the cache may hold            *)
(***************************************************************************)
MaxCacheRoutes == 1002

\* The minute of the clock may pass once, after this many calls.
TickAfter == 950

CacheTaskTypes == <<"generation", "validation", "refactoring", "testing">>

\* The k-th task: the tasks differ in type, in the 1,000-token bucket of
\* their content or in the language their description names, so that no two
\* of them share a cache key.
CacheTask(k) ==
    RouterTask(CacheTaskTypes[(k % 4) + 1],
               Context(0, ((k \div 4) % 150) * BucketSize * CharsPerToken),
               IF k \div 600 = 0 THEN {} ELSE {"python"},
               NoStrategy, <<>>)

CacheNext ==
    \/ registry = <<>> /\ registerAdapter("alpha", V2, TRUE)
    \/ registry # <<>> /\ routes < MaxCacheRoutes /\ route(CacheTask(routes))
    \/ routes = TickAfter /\ now = 0 /\ Tick(1)

SpecCache == RouteInit /\ [][CacheNext]_vars

(***************************************************************************)
(* The router at the cap of its cache: the behaviours of SpecCache from    *)
(* the 999th and the 1,000th call on, with calls for a key cached first    *)
(* and every moment for the clock to advance.                              *)
(***************************************************************************)
\* The decision the call for the k-th task caches at a time
CachedDecision(k, prefs, time) ==
    CHOOSE routingDecision \in
        UNION { { RoutingDecision(selection, CacheTask(k), requirements, prefs, time) :
                    selection \in {selectOptimalAdapter(
                                      SetAdapter(<<>>, "alpha", V2, AdapterFor("alpha", V2)),
                                      <<>>, requirements, prefs)} } :
                requirements \in {analyzeTask(CacheTask(k))} } : TRUE

\* The cache after the calls for the first n tasks, n within the cap, all
\* made at time 0: one entry per task, in call order.
FilledCache(n, prefs) ==
    [i \in 1..n |-> [key |-> _generateCacheKey(CacheTask(i - 1)),
                     route |-> CachedDecision(i - 1, prefs, 0)]]

FillLevels == {MaxCacheSize - 1, MaxCacheSize}

OverflowInit ==
    /\ ExecIdle
    /\ registry = SetAdapter(<<>>, "alpha", V2, AdapterFor("alpha", V2))
    /\ defaultVersions = ("alpha" :> V2)
    /\ metrics = (Chars("alpha") :> NewMap)
    /\ preferences \in RouterPreferences
    /\ routes \in FillLevels
    /\ batch = None
    /\ now = 0
    /\ routingCache = FilledCache(routes, preferences)
    /\ returned = Call("route", CacheTask(routes - 1), routingCache[routes].route, "")
    /\ emitted = <<Notification("task:routed", "alpha",
                                routingCache[routes].route.strategy)>>

\* SpecCache arrives at every initial state of SpecOverflow.
OverflowInitReached ==
    (routes \in FillLevels /\ now = 0) =>
        /\ registry = SetAdapter(<<>>, "alpha", V2, AdapterFor("alpha", V2))
        /\ defaultVersions = ("alpha" :> V2)
        /\ metrics = (Chars("alpha") :> NewMap)
        /\ routingCache = FilledCache(routes, preferences)
        /\ returned = Call("route", CacheTask(routes - 1), routingCache[routes].route, "")
        /\ emitted = <<Notification("task:routed", "alpha",
                                    routingCache[routes].route.strategy)>>

\* Tasks that share their cache key with the first of the cached tasks
OverflowTasks ==
    {t \in RouterTasks : /\ _generateCacheKey(t) = _generateCacheKey(CacheTask(0))
                         /\ t.executionStrategy = NoStrategy
                         /\ t.extensions = <<>>}

\* The next task of the chain, or a task whose decision is in the cache.
OverflowNext ==
    \/ \E t \in {CacheTask(routes)} \cup OverflowTasks : routes < MaxCacheRoutes /\ route(t)
    \/ now = 0 /\ Tick(1)

SpecOverflow == OverflowInit /\ [][OverflowNext]_vars

(***************************************************************************)
(* Properties of the registry (SpecRegistry)                               *)
(***************************************************************************)
\* C1: findMatchingAdapters returns no entry (every entry has a score > 0)
\* for a registered adapter that does not support one of the required
\* features, whatever points the adapter collects from the other checks.
C1_NoMatchWithoutRequiredFeature ==
    returned.op = "findMatchingAdapters" =>
        \A i \in DOMAIN returned.value :
            /\ RLess(RInt(0), returned.value[i].score)
            /\ \A j \in DOMAIN returned.arg.features :
                  supportsFeature(returned.value[i].adapter.caps, returned.arg.features[j])

\* A call that returned a match while a registered adapter that collects
\* points from the other checks lacks a required feature.
C1_Witness ==
    /\ returned.op = "findMatchingAdapters"
    /\ returned.value # <<>>
    /\ \E i \in DOMAIN registry :
          /\ \E j \in DOMAIN returned.arg.features :
                ~supportsFeature(registry[i].adapter.caps, returned.arg.features[j])
          /\ RLess(RInt(0), SumTallies(Tallies(registry[i].adapter, returned.arg)).score)
          /\ \A k \in DOMAIN returned.value :
                ~(returned.value[k].name = registry[i].name
                  /\ returned.value[k].version = registry[i].version)

(***************************************************************************)
(* Properties of the strategy engine (SpecExec)                            *)
(***************************************************************************)
NoAdvancedFeature(a) ==
    /\ ~supportsFeature(a.caps, "subAgents")
    /\ ~supportsFeature(a.caps, "parallelExecution")
    /\ ~supportsFeature(a.caps, "streaming")

\* No adapter call has failed or been timed out so far.
AdapterCallsSucceeded ==
    \A s \in DOMAIN strategyStats :
        DOMAIN strategyStats[s].failureReasons
            \cap {"Execution failed", "Strategy timeout", "All parallel tasks failed"} = {}

SkipThenSuccess(trail) ==
    /\ Len(trail) = 5
    /\ \A i \in 1..4 : trail[i].strategy = defaultStrategies[i] /\ trail[i].status = "skipped"
    /\ trail[5] = Succeeded("sequential")

\* The result was produced by the candidate chain (it carries the trail).
ResolvedByChain == pc = "resolved" /\ "attempts" \in DOMAIN outcome.value

C3_ExplicitFailureLeadsTrail ==
    (/\ pc \in {"resolved", "rejected"}
     /\ _getExplicitStrategy(task) # NoStrategy
     /\ "attempts" \in DOMAIN outcome.value)
    => LET explicitStrategy == _getExplicitStrategy(task)
           trail == outcome.value.attempts
       IN  /\ trail # <<>>
           /\ trail[1].strategy = explicitStrategy
           /\ trail[1].status = "failed"
           /\ trail[1].detail \in DOMAIN StatsOf(strategyStats, explicitStrategy).failureReasons

\* C4: every result execute resolves with carries the strategy that
\* succeeded, the trail ending in the success entry of that strategy, and
\* the total duration.
C4_ResultCarriesTrail ==
    pc = "resolved" =>
        /\ {"strategy", "attempts", "totalDuration"} \subseteq DOMAIN outcome.value
        /\ outcome.value.attempts # <<>>
        /\ outcome.value.attempts[Len(outcome.value.attempts)]
              = Succeeded(outcome.value.strategy)

\* C5: the exhaustion error is the 'All execution strategies failed' error,
\* the exhaustion notification was emitted, and the error's attempts are one
\* failed entry per strategy that was executed, and nothing else.
C5_ExhaustionListsFailuresOnly ==
    pc = "rejected" =>
        /\ outcome.value.message = "All execution strategies failed"
        /\ Event("strategy:exhausted", "", "") \in DOMAIN events
        /\ Len(outcome.value.attempts) = Len(executed)
        /\ \A i \in DOMAIN outcome.value.attempts :
              /\ outcome.value.attempts[i].status = "failed"
              /\ i \in DOMAIN executed
              /\ outcome.value.attempts[i].strategy = executed[i]

\* The step in which execute stops awaiting an implementation that has not
\* settled: the timer has won the race.
TimerWins ==
    /\ pc = "chain"
    /\ cur.kind = "run"
    /\ cur.status = "running"
    /\ cur'.kind = "none"

\* C6: when the timer (options.timeout if given, else the default of the
\* strategy) wins against a strategy of the chain, the attempt is recorded as
\* failed with 'Strategy timeout', the failure notification is emitted, and
\* execute goes on with the next candidate without rejecting.
C6_TimeoutIsFailedAttempt ==
    [][TimerWins =>
          /\ cur.timeout = (IF options.timeout # 0 THEN options.timeout
                            ELSE timeouts[cur.strategy])
          /\ attempts' = Append(attempts, Failed(cur.strategy, "Strategy timeout"))
          /\ Event("strategy:failed", cur.strategy, "Strategy timeout") \in DOMAIN events'
          /\ events' = Emit(events, Event("strategy:failed", cur.strategy, "Strategy timeout"))
          /\ StatsOf(strategyStats', cur.strategy).failures
                = StatsOf(strategyStats, cur.strategy).failures + 1
          /\ pc' = "chain"
          /\ idx' = idx + 1
          /\ outcome' = None]_vars

\* A call given options.timeout that resolved after one of its strategies
\* was timed out.
C6_Witness ==
    /\ pc = "resolved"
    /\ options.timeout # 0
    /\ "attempts" \in DOMAIN outcome.value
    /\ \E i \in DOMAIN outcome.value.attempts :
          outcome.value.attempts[i] = Failed(outcome.value.attempts[i].strategy,
                                             "Strategy timeout")

\* C7: the strategy named by the task's explicit directive is executed at
\* most once within the call.
C7_ExplicitExecutedOnce ==
    pc # "idle" =>
        Cardinality({i \in DOMAIN executed : executed[i] = _getExplicitStrategy(task)}) <= 1

\* C8: at most one strategy implementation of the call is running at any
\* time, the ones that lost the timeout race included.
C8_OneStrategyAtATime ==
    Cardinality(background)
        + (IF cur.kind = "run" /\ cur.status = "running" THEN 1 ELSE 0) <= 1

(***************************************************************************)
(* Properties of the router (SpecRoute)                                    *)
(***************************************************************************)
\* What the adapter reports about a strategy.
ReportsAvailable(a, strategy) ==
    CASE strategy = "subAgents" -> supportsFeature(a.caps, "subAgents")
      [] strategy = "parallel"  -> supportsFeature(a.caps, "parallelExecution")
      [] strategy = "streaming" -> supportsFeature(a.caps, "streaming")
      [] OTHER                  -> FALSE

RouteReturned == returned.op = "route" /\ returned.value # None

CacheHit == emitted # <<>> /\ emitted[1].type = "route:cache-hit"

\* C9 as stated: the strategy of every decision route returns is sequential
\* or one the selected adapter reports as available.
C9_StrategyAvailable ==
    RouteReturned =>
        \/ returned.value.strategy = "sequential"
        \/ ReportsAvailable(returned.value.adapter, returned.value.strategy)

\* C9 amended: the strategy of every decision route returns is sequential,
\* or one the selected adapter reports as available, or the strategy that the
\* vendor extensions of the task the decision was computed for name for the
\* selected adapter (for a cached decision, an earlier task of the same
\* cache key).
C9_StrategyAvailableOrOverride ==
    RouteReturned =>
        LET d == returned.value
        IN  \/ d.strategy = "sequential"
            \/ ReportsAvailable(d.adapter, d.strategy)
            \/ ~CacheHit /\ VendorStrategy(d.adapter, returned.arg) = d.strategy
            \/ /\ CacheHit
               /\ \E t \in RouterTasks :
                     /\ _generateCacheKey(t) = _generateCacheKey(returned.arg)
                     /\ VendorStrategy(d.adapter, t) = d.strategy

\* A fresh decision for a task without any override whose strategy is
\* parallel, which the selected adapter supports.
C9_Witness ==
    /\ RouteReturned
    /\ ~CacheHit
    /\ VendorStrategy(returned.value.adapter, returned.arg) = NoStrategy
    /\ returned.value.strategy = "parallel"
    /\ ReportsAvailable(returned.value.adapter, "parallel")

\* C10: a decision returned for a task that carries a strategy override, at
\* task level or in the extensions for the selected adapter, has exactly that
\* strategy.
C10_OverrideDecides ==
    RouteReturned =>
        LET t == returned.arg
            d == returned.value
        IN  /\ t.executionStrategy # NoStrategy => d.strategy = t.executionStrategy
            /\ \A i \in DOMAIN t.extensions :
                  (/\ t.extensions[i].vendor = d.adapterName
                   /\ t.extensions[i].executionStrategy # NoStrategy)
                  => d.strategy = t.extensions[i].executionStrategy

\* C11: the adapter of every decision route returns meets all requirements
\* inferred for the task of that call: every required feature, every
\* required capability flag, and enough context for the estimated size.
C11_AdapterMeetsRequirements ==
    RouteReturned =>
        LET requirements == analyzeTask(returned.arg)
            a == returned.value.adapter
        IN  /\ \A i \in DOMAIN requirements.features :
                  supportsFeature(a.caps, requirements.features[i])
            /\ \A i \in DOMAIN capabilityChecks :
                  RequirementFlag(requirements, capabilityChecks[i].req)
                      => supportsFeature(a.caps, capabilityChecks[i].cap)
            /\ a.caps.maxContextTokens >= requirements.minContextTokens

\* A step of a route call, and the cache key of the task it was called with.
RouteStep == routes' = routes + 1

RoutedKey == _generateCacheKey(returned'.arg)

\* The entry was cached under the key and is within the time-to-live.
ValidFor(e, key) == e.key = key /\ now - e.route.timestamp <= CacheTTL

ExpiredFor(e, key) == e.key = key /\ now - e.route.timestamp > CacheTTL

\* C12: a route call for a task whose key has a cached decision within the
\* time-to-live returns that very decision, emits the cache-hit notification
\* only, and leaves the cache as it is, whatever the registry holds by then.
C12_CacheHitReturnsCachedDecision ==
    [][RouteStep =>
          \A i \in DOMAIN routingCache :
              ValidFor(routingCache[i], RoutedKey) =>
                  /\ returned'.value = routingCache[i].route
                  /\ returned'.threw = ""
                  /\ emitted' = <<Notification("route:cache-hit",
                                               routingCache[i].route.adapter.name, "")>>
                  /\ routingCache' = routingCache]_vars

\* A cache hit that returned a decision the registry would no longer make.
C12_Witness ==
    /\ RouteReturned
    /\ CacheHit
    /\ LET selection == selectOptimalAdapter(registry, metrics,
                                             analyzeTask(returned.arg), preferences)
       IN  /\ selection # None
           /\ selection.version # returned.value.adapterVersion

\* C13: no route call returns a decision older than the time-to-live; a call
\* that finds an expired entry removes it, and the decision it returns is a
\* fresh one, stamped with the current time, cached under the key in place
\* of the expired one, and announced by a routed notification.
C13_ExpiredDecisionIsReplaced ==
    [][RouteStep =>
          /\ returned'.value # None => now - returned'.value.timestamp <= CacheTTL
          /\ \A i \in DOMAIN routingCache :
                ExpiredFor(routingCache[i], RoutedKey) =>
                    /\ routingCache[i] \notin Range(routingCache')
                    /\ IF returned'.value = None
                       THEN RoutedKey \notin CacheKeys(routingCache')
                       ELSE /\ returned'.value.timestamp = now
                            /\ emitted'[1].type = "task:routed"
                            /\ \E j \in DOMAIN routingCache' :
                                  routingCache'[j] = [key |-> _generateCacheKey(returned'.arg),
                                                      route |-> returned'.value]]_vars

\* A second call, after the time-to-live of the first one's decision, that
\* returned a fresh decision.
C13_Witness ==
    /\ RouteReturned
    /\ ~CacheHit
    /\ routes = 2
    /\ now > CacheTTL
    /\ returned.value.timestamp = now
    /\ Len(routingCache) = 1
    /\ Len(registry) = 1

\* C15: a route call runs to completion before the next one starts (route
\* has no await), so of the calls for one key exactly the first one selects
\* and inserts: a call that finds a valid entry changes nothing in the cache,
\* a call that finds none leaves exactly one entry for the key and keeps
\* every entry of the other keys, and the cache never exceeds its cap.
C15_OneSelectionPerKey ==
    [][RouteStep =>
          /\ Len(routingCache') <= MaxCacheSize
          /\ \A i, j \in DOMAIN routingCache' :
                routingCache'[i].key = routingCache'[j].key => i = j
          /\ IF \E i \in DOMAIN routingCache : ValidFor(routingCache[i], RoutedKey)
             THEN /\ routingCache' = routingCache
                  /\ emitted'[1].type = "route:cache-hit"
             ELSE /\ \A i \in DOMAIN routingCache :
                        routingCache[i].key # RoutedKey
                            => routingCache[i] \in Range(routingCache')
                  /\ returned'.value # None =>
                        /\ emitted'[1].type = "task:routed"
                        /\ Len(routingCache') = Len(routingCache)
                              + (IF RoutedKey \in CacheKeys(routingCache) THEN 0 ELSE 1)]_vars

\* Two calls for tasks of one key: the second one was a cache hit and the
\* cache holds the one decision.
C15_Witness ==
    /\ RouteReturned
    /\ CacheHit
    /\ routes = 2
    /\ Len(routingCache) = 1
    /\ routingCache[1].route = returned.value

\* C14: the routing cache never holds more than the cap of 1,000 entries; a
\* call that inserts into a full cache removes exactly 100 entries, none of
\* them younger than an entry that is kept, and the decision just inserted
\* is kept.
C14_OverflowEvictsOldestHundred ==
    [][(RouteStep /\ returned'.op = "route") =>
          /\ Len(routingCache') <= MaxCacheSize
          /\ (/\ Len(routingCache) = MaxCacheSize
              /\ RoutedKey \notin CacheKeys(routingCache)
              /\ returned'.value # None
              /\ emitted'[1].type = "task:routed")
             => \E kept \in {CacheKeys(routingCache')} :
                   /\ Len(routingCache') = MaxCacheSize + 1 - EvictCount
                   /\ routingCache' =
                         Append(SelectSeq(routingCache, LAMBDA e : e.key \in kept),
                                [key |-> RoutedKey, route |-> returned'.value])
                   /\ \A i \in DOMAIN routingCache :
                         routingCache[i].key \notin kept =>
                             \A j \in DOMAIN routingCache' :
                                 routingCache[i].route.timestamp
                                     <= routingCache'[j].route.timestamp]_vars

\* The call after 1,000 distinct cached decisions, a minute later: the cache
\* is back at 901 entries, the youngest of them the decision just returned,
\* and what was removed are the hundred decisions cached first.
C14_Witness ==
    /\ RouteReturned
    /\ ~CacheHit
    /\ routes = MaxCacheSize + 1
    /\ now = 1
    /\ Len(routingCache) = MaxCacheSize + 1 - EvictCount
    /\ routingCache[Len(routingCache)].route = returned.value
    /\ routingCache[1].route.timestamp = 0

\* C16: after every register, setDefaultVersion and unregister call the names
\* that have a default are exactly the names that have a registered version,
\* the default of a name is one of its registered versions (getAdapter(name)
\* returns that instance, never null), and a version registered for a name
\* that had none is the default afterwards, whatever setAsDefault was.
C16_OneRegisteredDefaultPerName ==
    [][/\ DOMAIN defaultVersions' = Names(registry')
       /\ \A n \in Names(registry') :
             /\ HasVersion(registry', n, defaultVersions'[n])
             /\ getAdapter(registry', defaultVersions', n, NoVersion) # None
             /\ getAdapter(registry', defaultVersions', n, NoVersion)
                    = EntryOf(registry', n, defaultVersions'[n]).adapter
       /\ \A n \in AdapterNames \ Names(registry') :
             getAdapter(registry', defaultVersions', n, NoVersion) = None
       /\ (/\ returned'.op = "registerAdapter"
           /\ returned'.threw = ""
           /\ returned'.arg[1] \notin Names(registry))
             => defaultVersions'[returned'.arg[1]] = returned'.arg[2]]_vars

\* A first version registered with setAsDefault = false is the default, next
\* to a second registered name.
C16_Witness ==
    /\ returned.op = "registerAdapter"
    /\ returned.threw = ""
    /\ returned.arg[3] = FALSE
    /\ Cardinality({i \in DOMAIN registry : registry[i].name = returned.arg[1]}) = 1
    /\ defaultVersions[returned.arg[1]] = returned.arg[2]
    /\ Cardinality(Names(registry)) = 2

\* major * 10^6 + minor * 10^3 + patch, a missing component counting as 0
VersionNumber(version) ==
    LET parts == Parts(version)
    IN  PartOr0(parts, 1) * 1000000 + PartOr0(parts, 2) * 1000 + PartOr0(parts, 3)

\* C17: for every name with a registered version, whatever the order of
\* registration and whichever version is the default, getLatestAdapter
\* returns the adapter registered under a version whose major.minor.patch
\* number no other registered version of the name exceeds (10.0.0 above
\* 9.0.0, 2.1 above 2.0.0); once 2.0.0 has been registered as default behind
\* 1.0.0, default and latest are both 2.0.0.
C17_LatestIsNumericallyHighest ==
    /\ \A n \in Names(registry) :
          \E latest \in Range(listVersions(registry, n)) :
              /\ \A v \in Range(listVersions(registry, n)) :
                    VersionNumber(v) <= VersionNumber(latest)
              /\ getLatestAdapter(registry, n) = EntryOf(registry, n, latest).adapter
    /\ returned.op = "getLatestAdapter"
          => returned.value = getLatestAdapter(registry, returned.arg)
    /\ (/\ returned = Call("registerAdapter", <<"gamma", V2, TRUE>>, None, "")
        /\ listVersions(registry, "gamma") = <<V1, V2>>)
          => /\ defaultVersions["gamma"] = V2
             /\ getLatestAdapter(registry, "gamma") = AdapterFor("gamma", V2)

\* getLatestAdapter returned the 10.0.0 release although 9.0.0 was registered
\* after it and 1.0.0 is the default.
C17_Witness ==
    /\ returned.op = "getLatestAdapter"
    /\ returned.value = AdapterFor("gamma", V10)
    /\ listVersions(registry, "gamma") = <<V1, V10, V2_1, V9>>
    /\ defaultVersions["gamma"] = V1

QueryOps == {"getAdapter", "getLatestAdapter", "findMatchingAdapters",
             "selectOptimalAdapter", "getAdapterMetrics"}

\* The name, or the version of the name, that an unregisterAdapter call names
\* is not registered.
UnregistersAbsent ==
    /\ returned'.op = "unregisterAdapter"
    /\ IF returned'.arg[2] = NoVersion
       THEN returned'.arg[1] \notin Names(registry)
       ELSE ~HasVersion(registry, returned'.arg[1], returned'.arg[2])

\* Only a register call without name or adapter and a setDefaultVersion call
\* for an unregistered version throw, and they change nothing and notify
\* nobody.
ThrowsOnlyWhenMalformed ==
    /\ returned'.threw # "" =>
          /\ \/ /\ returned'.op = "registerAdapter"
                /\ returned'.arg[1] = "" \/ AdapterFor(returned'.arg[1], returned'.arg[2]) = None
             \/ /\ returned'.op = "setDefaultVersion"
                /\ ~HasVersion(registry, returned'.arg[1], returned'.arg[2])
          /\ UNCHANGED registryVars
          /\ emitted' = <<>>
    /\ (returned'.op = "registerAdapter"
           /\ (returned'.arg[1] = "" \/ AdapterFor(returned'.arg[1], returned'.arg[2]) = None))
          => returned'.threw # ""
    /\ (returned'.op = "setDefaultVersion"
           /\ ~HasVersion(registry, returned'.arg[1], returned'.arg[2]))
          => returned'.threw # ""

\* The queries for something absent return null, the all-zero metrics or an
\* empty list, and no query changes the registry or notifies.
AbsentQueriesAnswerEmpty ==
    /\ returned'.op \in QueryOps => UNCHANGED registryVars /\ emitted' = <<>>
    /\ (returned'.op = "getAdapter"
           /\ ~(IF returned'.arg[2] = NoVersion
                THEN returned'.arg[1] \in Names(registry)
                ELSE HasVersion(registry, returned'.arg[1], returned'.arg[2])))
          => returned'.value = None
    /\ (returned'.op = "getLatestAdapter" /\ returned'.arg \notin Names(registry))
          => returned'.value = None
    /\ (returned'.op = "getAdapterMetrics"
            /\ MetricsKey(returned'.arg[1], returned'.arg[2]) \notin DOMAIN metrics)
          => returned'.value = NoMetrics
    /\ (returned'.op = "findMatchingAdapters" /\ registry = <<>>)
          => returned'.value = <<>>
    /\ (returned'.op = "selectOptimalAdapter" /\ registry = <<>>)
          => returned'.value = None

\* C18: no registry operation throws for an absent name or version: the
\* queries return null or an empty list, unregisterAdapter does nothing (no
\* change of the registry, no notification); only a malformed register call
\* and setDefaultVersion for an unregistered version throw, leaving the
\* registry unchanged and emitting nothing.
C18_AbsentNeverThrowsNorActs ==
    [][/\ ThrowsOnlyWhenMalformed
       /\ AbsentQueriesAnswerEmpty
       /\ UnregistersAbsent => UNCHANGED registryVars /\ emitted' = <<>>]_vars

\* The adapter supports some but not all of the required languages.
PartialLanguages(a, requirements) ==
    /\ Range(requirements.languages) \cap a.caps.supportedLanguages # {}
    /\ ~(Range(requirements.languages) \subseteq a.caps.supportedLanguages)

\* The adapter meets every requirement other than the languages.
MeetsTheRest(a, requirements) ==
    LET rest == <<FeatureTally(a, requirements), ContextTally(a, requirements)>>
                \o [i \in 1..Len(capabilityChecks) |->
                       CheckTally(a, requirements, capabilityChecks[i])]
    IN  \A i \in DOMAIN rest : rest[i].matched = rest[i].required

\* C19: an adapter that supports some but not all of the required languages
\* and meets every other requirement is listed by findMatchingAdapters, with
\* a score above 0 that is the points of the other requirements plus
\* (matched / required) * 5 for the languages.
C19_PartialLanguagesStillMatch ==
    returned.op = "findMatchingAdapters" =>
        \A i \in DOMAIN registry :
            (/\ PartialLanguages(registry[i].adapter, returned.arg)
             /\ MeetsTheRest(registry[i].adapter, returned.arg))
            => \E j \in DOMAIN returned.value :
                  /\ returned.value[j].name = registry[i].name
                  /\ returned.value[j].version = registry[i].version
                  /\ RLess(RInt(0), returned.value[j].score)
                  /\ returned.value[j].score
                        = SumTallies(Tallies(registry[i].adapter, returned.arg)).score

\* C20: of two registered adapters with equal capability scores for the
\* requirements, one of a preferred name and one not, selectOptimalAdapter
\* does not return the one that is not preferred, whatever durations were
\* recorded for either and whether or not considerPerformance is set.
C20_PreferredBeatsEqualScore ==
    returned.op = "selectOptimalAdapter" =>
        \A x, y \in DOMAIN registry :
            (/\ _calculateCapabilityScore(registry[x].adapter, returned.arg[1])
                   = _calculateCapabilityScore(registry[y].adapter, returned.arg[1])
             /\ registry[x].name \in Range(returned.arg[2].preferredAdapters)
             /\ registry[y].name \notin Range(returned.arg[2].preferredAdapters))
            => \/ returned.value = None
               \/ returned.value.name # registry[y].name
               \/ returned.value.version # registry[y].version

\* beta is preferred and selected, although alpha 1.0.0 has the same
\* capability score and, unlike beta, a history that earns the full speed
\* boost, and performance is considered.
C20_Witness ==
    /\ returned.op = "selectOptimalAdapter"
    /\ returned.arg[2].preferredAdapters = <<"beta">>
    /\ returned.arg[2].considerPerformance
    /\ HasVersion(registry, "alpha", V1)
    /\ HasVersion(registry, "beta", V1)
    /\ _calculateCapabilityScore(AdapterFor("alpha", V1), returned.arg[1])
          = _calculateCapabilityScore(AdapterFor("beta", V1), returned.arg[1])
    /\ RLess(RInt(0), _calculateCapabilityScore(AdapterFor("beta", V1), returned.arg[1]))
    /\ getAdapterMetrics(metrics, "alpha", V1).avgDuration = RInt(1)
    /\ getAdapterMetrics(metrics, "beta", V1).avgDuration = RInt(5000)
    /\ returned.value # None
    /\ returned.value.name = "beta"

(***************************************************************************)
(* C21: every recordMetrics call adds one execution, its duration and, when *)
(* it failed, one failure to the record of its name and version, with       *)
(* avgDuration = totalDuration / totalExecutions and successRate =          *)
(* (totalExecutions - failures) / totalExecutions, so that the record       *)
(* counts the calls made; and no other registry operation changes a record. *)
(***************************************************************************)
\* A record that holds numbers
Counted(m) == "kind" \notin DOMAIN m

C21_RecordsAccumulate ==
    [][ /\ returned'.op = "recordMetrics" =>
             \E old \in {getAdapterMetrics(metrics, returned'.arg[1], returned'.arg[2])},
                new \in {getAdapterMetrics(metrics', returned'.arg[1], returned'.arg[2])} :
                /\ Counted(new)
                /\ new.totalExecutions =
                      (IF Counted(old) THEN old.totalExecutions ELSE 0) + 1
                /\ new.totalDuration =
                      (IF Counted(old) THEN old.totalDuration ELSE 0) + returned'.arg[3]
                /\ new.failures =
                      (IF Counted(old) THEN old.failures ELSE 0)
                          + (IF returned'.arg[4] THEN 1 ELSE 0)
                /\ new.avgDuration = Rat(new.totalDuration, new.totalExecutions)
                /\ new.successRate =
                      Rat(new.totalExecutions - new.failures, new.totalExecutions)
                /\ new.failures <= new.totalExecutions
                /\ ~RLess(new.successRate, RInt(0))
                /\ ~RLess(RInt(1), new.successRate)
        /\ returned'.op # "recordMetrics" =>
             \A key \in DOMAIN metrics : key \in DOMAIN metrics' /\ metrics'[key] = metrics[key]
      ]_vars

(***************************************************************************)
(* C22: when an execute call completes, by success or by exhaustion, the    *)
(* registry holds a performance record that counts one execution more than  *)
(* before, and one failure more when the execution failed.                  *)
(***************************************************************************)
Completed == {"resolved", "rejected"}

C22_CompletionUpdatesRecord ==
    [][ (pc \notin Completed /\ pc' \in Completed) =>
            \E key \in DOMAIN metrics' :
               \E old \in {IF key \in DOMAIN metrics THEN metrics[key] ELSE NoMetrics} :
                  /\ metrics'[key].totalExecutions = old.totalExecutions + 1
                  /\ metrics'[key].failures =
                        old.failures + (IF pc' = "rejected" THEN 1 ELSE 0)
      ]_vars

(***************************************************************************)
(* C23: any two tasks that routeBatch has put into one group have the same  *)
(* type, the same set of extension keys, and context-size estimates within  *)
(* 20% of each other.                                                       *)
(***************************************************************************)
VendorKeys(t) == {t.extensions[i].vendor : i \in DOMAIN t.extensions}

Within20Percent(size1, size2) == 5 * Abs(size1 - size2) <= Max(size1, size2)

C23_GroupMembersPairwiseSimilar ==
    batch # None =>
        \A g \in DOMAIN batch.taskGroups :
            \A i, j \in DOMAIN batch.taskGroups[g] :
                \E task1 \in {batch.taskGroups[g][i]}, task2 \in {batch.taskGroups[g][j]} :
                    /\ task1.type = task2.type
                    /\ VendorKeys(task1) = VendorKeys(task2)
                    /\ Within20Percent(ContextSizeOf(task1), ContextSizeOf(task2))

(***************************************************************************)
(* C24: a routeBatch call that returns has called route once per group and  *)
(* returns one decision per task of its input, with that task's id and the  *)
(* adapter and strategy its group was routed to.                            *)
(***************************************************************************)
\* The step in which a routeBatch call returns its decisions
BatchReturns ==
    /\ returned'.op = "routeBatch"
    /\ returned'.threw = ""
    /\ batch # None
    /\ batch' = None

\* How many elements of a sequence satisfy a test
Count(seq, Test(_)) == Len(SelectSeq(seq, Test))

C24_OneDecisionPerTask ==
    [][ BatchReturns =>
            /\ batch.routeCalls = Len(batch.taskGroups)
            /\ Len(returned'.value) = Len(batch.tasks)
            /\ \A i \in DOMAIN batch.tasks :
                  Count(returned'.value, LAMBDA d : d.taskId = batch.tasks[i].id)
                      = Count(batch.tasks, LAMBDA t : t.id = batch.tasks[i].id)
            /\ \A i \in DOMAIN returned'.value :
                  \E g \in DOMAIN batch.taskGroups :
                      /\ \E k \in DOMAIN batch.taskGroups[g] :
                            batch.taskGroups[g][k].id = returned'.value[i].taskId
                      /\ \E d \in Range(returned'.value) :
                            /\ d.taskId = batch.taskGroups[g][1].id
                            /\ d.adapterName = returned'.value[i].adapterName
                            /\ d.strategy = returned'.value[i].strategy
      ]_vars

(***************************************************************************)
(* C25: analyzeTask changes neither the task nor the router, returns the    *)
(* same profile for the same task, and extensions only add to the profile   *)
(* of the task without them: every feature stays, streaming and subAgents   *)
(* stay true, minContextTokens, languages and multiFile are the same, and   *)
(* no feature is listed twice.                                              *)
(***************************************************************************)
WithoutExtensions(t) == [t EXCEPT !.extensions = <<>>]

C25_ExtensionsOnlyAdd ==
    [][ returned'.op = "analyzeTask" =>
            \E profile \in {returned'.value},
               plain \in {analyzeTask(WithoutExtensions(returned'.arg))} :
                /\ profile = analyzeTask(returned'.arg)
                /\ <<registry, defaultVersions, metrics, preferences, routingCache, batch>>'
                      = <<registry, defaultVersions, metrics, preferences, routingCache, batch>>
                /\ Range(plain.features) \subseteq Range(profile.features)
                /\ plain.streaming => profile.streaming
                /\ plain.subAgents => profile.subAgents
                /\ profile.minContextTokens = plain.minContextTokens
                /\ profile.languages = plain.languages
                /\ profile.multiFile = plain.multiFile
                /\ Cardinality(Range(profile.features)) = Len(profile.features)
      ]_vars

\* A profile to which the extensions added sub-agents, for a task whose
\* extensions name features of its type again, one of them twice.
C25_Witness ==
    /\ returned.op = "analyzeTask"
    /\ Len(returned.arg.extensions) = 2
    /\ returned.arg.type = "validation"
    /\ returned.value.features = <<"validation", "testing">>
    /\ returned.value.subAgents
    /\ ~analyzeTask(WithoutExtensions(returned.arg)).subAgents
    /\ returned.value.languages = <<"python">>

(***************************************************************************)
(* C26: supportsFeature answers with the boolean value of a key of the      *)
(* profile, else with a feature flag or its enabled field, else with the    *)
(* boolean value of the child property of a dotted name; any other name,    *)
(* and any name on an adapter without profile, is answered with false.      *)
(***************************************************************************)
\* The answer the resolution order gives for the keys the profile has
ResolvedInOrder(caps, feature) ==
    IF caps = None THEN FALSE
    ELSE IF feature \in TopLevelKeys(caps) THEN TopLevelTruthy(caps, feature)
    ELSE IF feature \in DOMAIN caps.features /\ caps.features[feature].kind # "absent"
    THEN caps.features[feature].value
    ELSE IF /\ Len(Segments(feature)) = 2
            /\ Segments(feature)[1] = "subAgents"
            /\ caps.subAgents.kind = "object"
            /\ Segments(feature)[2] \in {"supported", "maxConcurrent"}
    THEN ChildTruthy(caps, "subAgents", Segments(feature)[2])
    ELSE FALSE

C26_ResolvesInOrderElseFalse ==
    returned.op = "supportsFeature" =>
        /\ returned.threw = ""
        /\ returned.value = ResolvedInOrder(adapter.caps, returned.arg)

(***************************************************************************)
(* C27: while the listeners of a capability change are notified, the        *)
(* capability still has its old value for supportsFeature.                  *)
(***************************************************************************)
C27_NotifiedBeforeVisible ==
    [][ returned'.op = "_adjustCapabilitiesForVersion" =>
            \A i \in DOMAIN emitted' : emitted'[i].visible = emitted'[i].oldValue
      ]_vars

(***************************************************************************)
(* C28: when the adapter has no advanced capability, the task has more than *)
(* 10 files and every adapter call succeeds in time, execute resolves via   *)
(* batched: ceil(n/b) adapter calls (b = 5 unless the options name a batch  *)
(* size), one after another, each with at most b files, the files of the    *)
(* calls in order being the files of the task, and batchCount = ceil(n/b).  *)
(***************************************************************************)
NoAdvancedCapability(a) ==
    \A feature \in {"subAgents", "parallelExecution", "streaming"} :
        ~supportsFeature(a.caps, feature)

NoneFailed == \A i \in DOMAIN attempts : attempts[i].status # "failed"

RECURSIVE Concat(_)
Concat(seqs) == IF seqs = <<>> THEN <<>> ELSE Head(seqs) \o Concat(Tail(seqs))

C28_BatchedPartitionsFiles ==
    [][ /\ NoAdvancedCapability(adapter)
        /\ task # None
        /\ task.files > 10
        /\ _getExplicitStrategy(task) = NoStrategy
        /\ NoneFailed
        =>
        /\ (cur.kind = "run" /\ cur.impl = "batched" /\ cur.status = "running") =>
                cur.inflight = 1 /\ cur.started = cur.ok + 1
        /\ pc' = "resolved" =>
                /\ cur.strategy = "batched"
                /\ Len(cur.calls) = CeilDiv(task.files, BatchSizeOf(options))
                /\ \A k \in DOMAIN cur.calls : Len(cur.calls[k]) <= BatchSizeOf(options)
                /\ Concat(cur.calls) = Files(task.files)
                /\ outcome'.value.strategy = "batched"
                /\ outcome'.value.batchCount = CeilDiv(task.files, BatchSizeOf(options))
      ]_vars

\* 11 files went to the adapter in three calls of 5, 5 and 1 files.
C28_Witness ==
    /\ pc = "resolved"
    /\ NoAdvancedCapability(adapter)
    /\ task.files = 11
    /\ _getExplicitStrategy(task) = NoStrategy
    /\ options.batchSize = 0
    /\ outcome.value.strategy = "batched"
    /\ outcome.value.batchCount = 3
    /\ Len(outcome.value.attempts) = 4

(***************************************************************************)
(* C29: when the adapter supports no advanced feature, the options name a   *)
(* batch size b, the task has more than b files and every adapter call      *)
(* succeeds in time, execute runs batched and emits ceil(n/b)               *)
(* batch-progress notifications, the k-th with progress k/ceil(n/b).        *)
(***************************************************************************)
BatchProgress(k, total) ==
    [type |-> "batch:completed", strategy |-> "batched", error |-> "",
     done |-> k, total |-> total]

ProgressEvents(bag) == {e \in DOMAIN bag : e.type = "batch:completed"}

C29_ProgressPerBatch ==
    [][ /\ NoAdvancedCapability(adapter)
        /\ task # None
        /\ options.batchSize # 0
        /\ task.files > options.batchSize
        /\ _getExplicitStrategy(task) = NoStrategy
        /\ NoneFailed
        /\ pc' = "resolved"
        =>
        /\ outcome'.value.strategy = "batched"
        /\ ProgressEvents(events') =
               {BatchProgress(k, CeilDiv(task.files, options.batchSize)) :
                   k \in 1 .. CeilDiv(task.files, options.batchSize)}
        /\ \A e \in ProgressEvents(events') : events'[e] = 1
      ]_vars

(***************************************************************************)
(* C30: the parallel strategy makes one sub-task per file of a task with    *)
(* more than one file, never has more than maxConcurrent adapter calls in   *)
(* flight (the adapter's parallelExecution configuration, else 5), and      *)
(* starts further sub-tasks only when every sub-task started before has     *)
(* settled, with or without an error.                                       *)
(***************************************************************************)
ConfiguredConcurrency(a) ==
    IF /\ a.caps.features.parallelExecution.kind = "object"
       /\ a.caps.features.parallelExecution.maxConcurrent > 0
    THEN a.caps.features.parallelExecution.maxConcurrent
    ELSE 5

FanOuts == {r \in {cur} \cup background : r.kind = "run" /\ r.impl = "parallel"}

C30_ParallelInBoundedBatches ==
    [][ /\ \A r \in FanOuts :
              /\ Len(r.files) > 1
              /\ r.planned = Len(r.files)
              /\ r.inflight <= ConfiguredConcurrency(adapter)
              /\ \A k \in DOMAIN r.calls : r.calls[k] = <<r.files[k]>>
        /\ (cur \in FanOuts /\ cur'.kind = "run") =>
              /\ cur'.started > cur.started =>
                     cur.inflight = 1 /\ cur.ok + cur.bad + 1 = cur.started
              /\ cur'.status # "running" => Len(cur'.calls) = Len(cur.files)
      ]_vars

\* A second batch of sub-tasks is in flight after a sub-task of the first
\* batch has failed.
C30_Witness ==
    /\ cur \in FanOuts
    /\ cur.started > cur.width
    /\ cur.inflight > 0
    /\ cur.bad > 0
    /\ cur.ok > 0

(***************************************************************************)
(* C31: when the fan-out of the parallel strategy is over, every sub-task   *)
(* has been called; successful + failed is the number of sub-tasks, failed  *)
(* is the number of sub-tasks whose call was rejected, the status is        *)
(* 'partial' if there is one and 'completed' if not; if every call was      *)
(* rejected the strategy fails, the chain records a failed attempt and      *)
(* moves on to the next candidate.                                          *)
(***************************************************************************)
FanOutEnds == cur \in FanOuts /\ cur.status = "running" /\ cur'.kind = "run"
                 /\ cur'.status # "running"

C31_FailuresAreTallied ==
    [][ /\ FanOutEnds =>
              /\ cur'.started = cur'.planned
              /\ IF cur'.rejections = cur'.planned
                 THEN cur'.status = "rejected" /\ cur'.error = "All parallel tasks failed"
                 ELSE /\ cur'.status = "resolved"
                      /\ cur'.result.failed = cur'.rejections
                      /\ cur'.result.successful + cur'.result.failed = cur'.planned
                      /\ cur'.result.status =
                             IF cur'.rejections > 0 THEN "partial" ELSE "completed"
        /\ (pc = "chain" /\ cur \in FanOuts /\ cur.status = "rejected" /\ cur'.kind = "none") =>
              /\ attempts' = Append(attempts, Failed("parallel", cur.error))
              /\ idx' = idx + 1
              /\ pc' = "chain"
      ]_vars

(***************************************************************************)
(* C32: for every strategy attempts = successes + failures; a skipped       *)
(* strategy changes no counter; every failed attempt, that of an explicit   *)
(* strategy included, adds one to failures and one to the count of its      *)
(* error message; the top failure reasons reported are at most 3, in        *)
(* non-increasing order of their counts.                                    *)
(***************************************************************************)
ReasonCount(stats, strategy, msg) ==
    IF msg \in DOMAIN StatsOf(stats, strategy).failureReasons
    THEN StatsOf(stats, strategy).failureReasons[msg] ELSE 0

\* An attempt fails in this step: the explicit strategy, or a candidate of
\* the chain, whose failure goes to the attempt trail.
ExplicitFailsNow == pc = "explicit" /\ pc' = "chain"

ChainFailsNow ==
    /\ pc = "chain"
    /\ Len(attempts') = Len(attempts) + 1
    /\ attempts'[Len(attempts')].status = "failed"

FailureCounted(strategy, msg) ==
    /\ StatsOf(strategyStats', strategy).failures
          = StatsOf(strategyStats, strategy).failures + 1
    /\ ReasonCount(strategyStats', strategy, msg)
          = ReasonCount(strategyStats, strategy, msg) + 1

SkipsNow ==
    /\ Len(attempts') = Len(attempts) + 1
    /\ attempts'[Len(attempts')].status = "skipped"

C32_StatisticsAddUp ==
    [][ /\ strategyStats' # strategyStats =>
              \A statistics \in {getStatistics(strategyStats')} :
                 \A s \in DOMAIN statistics :
                    /\ statistics[s].attempts = statistics[s].successes + statistics[s].failures
                    /\ Len(statistics[s].topFailureReasons) <= 3
                    /\ \A i \in 1 .. Len(statistics[s].topFailureReasons) - 1 :
                          statistics[s].topFailureReasons[i].count
                             >= statistics[s].topFailureReasons[i + 1].count
                    /\ \A i \in DOMAIN statistics[s].topFailureReasons :
                          statistics[s].topFailureReasons[i].count =
                             ReasonCount(strategyStats', s,
                                         statistics[s].topFailureReasons[i].reason)
        /\ SkipsNow => strategyStats' = strategyStats
        /\ ExplicitFailsNow => FailureCounted(cur.strategy, cur.error)
        /\ ChainFailsNow => FailureCounted(attempts'[Len(attempts')].strategy,
                                           attempts'[Len(attempts')].detail)
      ]_vars

\* Four executions of sequential have failed for four reasons, one of them
\* an error without message, and three reasons are reported.
C32_Witness ==
    /\ "sequential" \in DOMAIN strategyStats
    /\ Len(strategyStats["sequential"].reasonOrder) = 4
    /\ Len(getStatistics(strategyStats)["sequential"].topFailureReasons) = 3
    /\ "" \in DOMAIN strategyStats["sequential"].failureReasons

\* C33: every execute call eventually settles, by resolving or rejecting,
\* provided timers fire, even if adapter calls never settle.
C33_ExecuteSettles == (pc \in {"explicit", "chain"}) ~> (pc \in {"resolved", "rejected"})

\* The part of C33 that the timeout race does give: an execute call that is in
\* its fallback chain settles.
ChainSettles == (pc = "chain") ~> (pc \in {"resolved", "rejected"})

\* Adapter calls started so far by the implementations in `runs`
RECURSIVE CallsStarted(_)
CallsStarted(runs) ==
    IF runs = {} THEN 0
    ELSE LET r == CHOOSE x \in runs : TRUE
         IN  r.started + CallsStarted(runs \ {r})

\* batch:completed notifications emitted so far
RECURSIVE ProgressCount(_, _)
ProgressCount(bag, es) ==
    IF es = {} THEN 0
    ELSE LET e == CHOOSE x \in es : TRUE
         IN  bag[e] + ProgressCount(bag, es \ {e})

\* C34: once execute has settled (resolved or rejected), no further adapter
\* call is started and no further batch-progress notification is emitted for
\* the task, also not by an implementation that lost the timeout race.
C34_QuietAfterSettled ==
    [][ /\ pc \in {"resolved", "rejected"} =>
              CallsStarted(background') <= CallsStarted(background)
        /\ pc \in {"resolved", "rejected"} =>
              ProgressCount(events', ProgressEvents(events'))
                 <= ProgressCount(events, ProgressEvents(events))
      ]_vars

\* The adapter as the router holds it; its vendor extensions name no strategy.
Routed(a) == [name |-> a.name, caps |-> a.caps, hasGetVendorExtensions |-> FALSE]

SubAgentsDeclaredOff(a) == a.caps.subAgents.kind = "object" /\ ~a.caps.subAgents.value

\* Every strategy implementation the engine has started or is starting
Implementations == {r \in {cur} \cup background : r.kind = "run"}

\* C35: supportsFeature('subAgents') is supportsFeature('subAgents.supported');
\* for a profile that declares subAgents: {supported: false} the engine skips
\* the subAgents strategy as not available and the router does not select it.
C35_SupportedDecides ==
    /\ supportsFeature(adapter.caps, "subAgents")
           = supportsFeature(adapter.caps, "subAgents.supported")
    /\ SubAgentsDeclaredOff(adapter) =>
           /\ ~_isStrategyAvailable(adapter, "subAgents")
           /\ \A i \in DOMAIN attempts :
                  attempts[i].strategy = "subAgents" =>
                      attempts[i] = Skipped("subAgents", "Not available")
           /\ \A requirements \in [subAgents : BOOLEAN, streaming : BOOLEAN] :
                  FirstFallback(defaultFallbackStrategies, 1, Routed(adapter), requirements)
                      # "subAgents"

\* C36: every decision route returns names an adapter and version that are
\* registered at the time of the call, also after unregister calls; otherwise
\* route throws the no-suitable-adapter error.
C36_RoutesToRegistered ==
    returned.op = "route" =>
        IF returned.value # None
        THEN HasVersion(registry, returned.value.adapterName, returned.value.adapterVersion)
        ELSE returned.threw = "No suitable adapter found for task requirements"

\* C37: the engine calls adapter.executeWithSubAgents only when
\* supportsFeature('subAgents') is true, adapter.executeWithStreaming only when
\* supportsFeature('streaming') is true, and fans out per file only when
\* supportsFeature('parallelExecution') is true, whether the strategy comes
\* from the chain or was requested explicitly.
C37_EntryPointsNeedFeature ==
    \A r \in Implementations :
        /\ r.entry = "executeWithSubAgents" => supportsFeature(adapter.caps, "subAgents")
        /\ r.entry = "executeWithStreaming" => supportsFeature(adapter.caps, "streaming")
        /\ r.impl = "parallel" => supportsFeature(adapter.caps, "parallelExecution")

\* An explicitly requested parallel strategy has started the last of its
\* per-file calls.
C37_Witness ==
    /\ pc = "explicit"
    /\ cur.kind = "run"
    /\ cur.impl = "parallel"
    /\ cur.started = cur.planned
    /\ cur.started > cur.width

\* An explicitly requested strategy whose feature the adapter lacks fails
\* before any adapter call.
RefusedExplicit ==
    /\ pc = "explicit"
    /\ cur.kind = "run"
    /\ cur.status = "rejected"
    /\ cur.error \in {"Sub-agents not supported", "Streaming not supported",
                       "Parallel execution not supported"}
    /\ Len(cur.calls) = 0

HasSequential == options # None /\ "sequential" \in Range(options.strategies)

RegisteredSteps == {adapter.migrationHandlers[i].handler : i \in DOMAIN adapter.migrationHandlers}

Unreachable == 0 - 1

\* The fewest steps that lead from a version of `frontier` to toVersion,
\* `hops` steps being behind the frontier.
RECURSIVE FewestHops(_, _, _, _)
FewestHops(frontier, seen, toVersion, hops) ==
    IF toVersion \in frontier THEN hops
    ELSE LET next == {h.to : h \in {x \in RegisteredSteps : x.from \in frontier}} \ seen
         IN  IF next = {} THEN Unreachable
             ELSE FewestHops(next, seen \cup next, toVersion, hops + 1)

\* The marks lead from fromVersion to toVersion step by step.
LeadsFromTo(marks, fromVersion, toVersion) ==
    IF marks = <<>> THEN fromVersion = toVersion
    ELSE /\ marks[1].from = fromVersion
         /\ marks[Len(marks)].to = toVersion
         /\ \A i \in 1 .. Len(marks) - 1 : marks[i].to = marks[i + 1].from

\* C39: migrateTask(task, a, b) succeeds exactly when a direct a->b handler
\* is registered or b is reachable from a; it then applies registered
\* handlers along a path of the fewest hops, in path order and each once;
\* otherwise it rejects with the no-migration-path error. The search ends for
\* every set of registered migrations, cyclic ones included.
C39_MigratesAlongShortestPath ==
    returned.op = "migrateTask" =>
        \A hops \in {IF Handler(returned.arg[1], returned.arg[2]) \in RegisteredSteps THEN 1
                      ELSE FewestHops({returned.arg[1]}, {returned.arg[1]}, returned.arg[2], 0)} :
            IF hops = Unreachable
            THEN /\ returned.threw = "No migration path found from fromVersion to toVersion"
                 /\ returned.value = <<>>
            ELSE /\ returned.threw = ""
                 /\ Len(returned.value) = hops
                 /\ LeadsFromTo(returned.value, returned.arg[1], returned.arg[2])
                 /\ \A i \in DOMAIN returned.value : returned.value[i] \in RegisteredSteps
                 /\ \A i, j \in DOMAIN returned.value :
                        returned.value[i] = returned.value[j] => i = j

\* A task was migrated from 1.0 to 2.0 over the short cut while the chain
\* of three steps, registered first, and a cycle between 1.0 and 1.1 exist.
C39_Witness ==
    /\ returned.op = "migrateTask"
    /\ returned.arg = << <<"1", ".", "0">>, <<"2", ".", "0">> >>
    /\ returned.threw = ""
    /\ Len(returned.value) = 2
    /\ Len(adapter.migrationHandlers) = MaxMigrations
    /\ adapter.migrationHandlers[1].handler = Handler(<<"1", ".", "0">>, <<"1", ".", "1">>)
    /\ Handler(<<"1", ".", "1">>, <<"1", ".", "2">>) \in RegisteredSteps
    /\ Handler(<<"1", ".", "1">>, <<"1", ".", "0">>) \in RegisteredSteps

(***************************************************************************)
(* Properties of the CoreEventAdapter (SpecListeners)                      *)
(***************************************************************************)
\* C40: after any sequence of updateConfiguration calls the orchestrator
\* holds exactly one adapter listener per listened event type when
\* options.enabled is true and none when it is false, so that an orchestrator
\* event is processed and collected at most once.
C40_OneListenerPerEvent ==
    [][ /\ \A e \in ListenedEvents :
              adapter'.listeners[e] = IF adapter'.options["enabled"] = "true" THEN 1 ELSE 0
        /\ adapter'.eventsProcessed <= adapter.eventsProcessed + 1
        /\ adapter'.collected <= adapter.collected + 1
      ]_vars

====
